---- MODULE Spec2Model ----
(***************************************************************************)
(* Model of the image crawler's scanning engine:                           *)
(*   src/services/scanner/fileScanner.ts  (FileScanner, the tree walker)   *)
(*   src/utils/hash.ts                    (calculateFileHash)              *)
(* One FileScanner is constructed on rootPath; one scan() invocation walks *)
(* a file system chosen in Init.  Every await of the code is one step.     *)
(***************************************************************************)
EXTENDS Integers, Sequences, FiniteSets, TLC

(***************************************************************************)
(* Bounds of the model.                                                    *)
(***************************************************************************)
\* largest file size, in bytes, of a file of the modelled trees
MaxFileSize == 2
\* largest maxSize value a caller passes
MaxMaxSize == 1
\* largest number of files of one tree that fail to stat or to open
MaxFaults == 1

(***************************************************************************)
(* Strings are sequences of one-character strings, so that the extension   *)
(* and the lower-casing are computed.                                      *)
(***************************************************************************)
UpperChars ==
  << "A","B","C","D","E","F","G","H","I","J","K","L","M",
     "N","O","P","Q","R","S","T","U","V","W","X","Y","Z" >>

LowerChars ==
  << "a","b","c","d","e","f","g","h","i","j","k","l","m",
     "n","o","p","q","r","s","t","u","v","w","x","y","z" >>

\* the lower-case letter of each upper-case letter
LowerOf ==
  [ c \in { UpperChars[k] : k \in 1..Len(UpperChars) } |->
      LowerChars[CHOOSE k \in 1..Len(UpperChars) : UpperChars[k] = c] ]

ToLowerChar(c) == IF c \in DOMAIN LowerOf THEN LowerOf[c] ELSE c

\* String.prototype.toLowerCase
ToLowerCase(s) == [k \in 1..Len(s) |-> ToLowerChar(s[k])]

\* path.extname: from the last dot of the name to its end; empty when the
\* name has no dot, or when its only dot is its first character
Extname(fileName) ==
  LET dots == { k \in 1..Len(fileName) : fileName[k] = "." }
      lastDot == CHOOSE k \in dots : \A j \in dots : j <= k
  IN  IF dots = {} \/ fileName = << ".", "." >> THEN << >>
      ELSE IF lastDot = 1 THEN << >>
      ELSE SubSeq(fileName, lastDot, Len(fileName))

\* Array.prototype.includes
Includes(arr, x) == \E k \in 1..Len(arr) : arr[k] = x

Range(s) == { s[k] : k \in 1..Len(s) }

(***************************************************************************)
(* Paths are sequences of names.                                           *)
(***************************************************************************)
\* path.join(dirPath, entry.name)
PathJoin(dirPath, name) == Append(dirPath, name)

RECURSIVE CommonLen(_, _)
CommonLen(p, q) ==
  IF p = << >> \/ q = << >> \/ Head(p) # Head(q) THEN 0
  ELSE 1 + CommonLen(Tail(p), Tail(q))

\* path.relative(from, to): one ".." for each segment of from that is not
\* shared with to, then the segments of to that are not shared with from
PathRelative(from, to) ==
  LET c == CommonLen(from, to)
  IN  [k \in 1..(Len(from) - c) |-> << ".", "." >>]
        \o SubSeq(to, c + 1, Len(to))

\* path.resolve, with the working directory the parent of the trees: the
\* "." segments are dropped
NotDot(segment) == segment # << "." >>

PathResolve(p) == SelectSeq(p, NotDot)

(***************************************************************************)
(* Names and extensions of the modelled trees.                             *)
(***************************************************************************)
ExtJpg  == << ".", "j", "p", "g" >>
ExtJpeg == << ".", "j", "p", "e", "g" >>
ExtPng  == << ".", "p", "n", "g" >>
ExtGif  == << ".", "g", "i", "f" >>
ExtWebp == << ".", "w", "e", "b", "p" >>
ExtBmp  == << ".", "b", "m", "p" >>
ExtTiff == << ".", "t", "i", "f", "f" >>
ExtJPG  == << ".", "J", "P", "G" >>
ExtTxt  == << ".", "t", "x", "t" >>

NameA  == << "a", ".", "j", "p", "g" >>
NameB  == << "B", ".", "J", "P", "G" >>
NameC  == << "c", ".", "t", "x", "t" >>
NameE  == << "e", ".", "p", "n", "g" >>
NameD  == << "d", ".", "j", "p", "g" >>
NameN  == << "n" >>
NameL  == << "l", ".", "j", "p", "g" >>

\* constructor(private readonly rootPath: string)
rootPath == << << "r" >> >>

(***************************************************************************)
(* The scanner's defaults and the options a caller passes.                 *)
(***************************************************************************)
\* defaults that do not descend
defaultOptionsShallow ==
  [ recursive   |-> FALSE,
    includeZips |-> TRUE,
    fileTypes   |-> << ExtJpg, ExtJpeg, ExtPng, ExtGif, ExtWebp, ExtBmp, ExtTiff >> ]

defaultOptions ==
  [ recursive   |-> TRUE,
    includeZips |-> TRUE,
    fileTypes   |-> << ExtJpg, ExtJpeg, ExtPng, ExtGif, ExtWebp, ExtBmp, ExtTiff >> ]

\* { ...options, ...defaults }: the spread written the wrong way round
MergeOptionsDefaultsWin(defaults, options) ==
  [ k \in DOMAIN defaults \cup DOMAIN options |->
      IF k \in DOMAIN defaults THEN defaults[k] ELSE options[k] ]

\* { ...defaults, ...options }: a key of options wins, every other key of
\* defaults is kept
MergeOptions(defaults, options) ==
  [ k \in DOMAIN defaults \cup DOMAIN options |->
      IF k \in DOMAIN options THEN options[k] ELSE defaults[k] ]

\* options.maxSize, an optional number: {} is undefined, {n} is the number n
MaxSizeOf(options) ==
  IF "maxSize" \in DOMAIN options THEN { options["maxSize"] } ELSE { }

NoOptions == [ k \in { } |-> TRUE ]

RecursiveOptions == { NoOptions } \cup { [ recursive |-> b ] : b \in BOOLEAN }

FileTypesOptions ==
  { NoOptions }
    \cup { [ fileTypes |-> t ] : t \in { << >>, << ExtJpg >>, << ExtJPG >>,
                                      << ExtJpg, ExtTxt, ExtPng >> } }

MaxSizeOptions == { NoOptions } \cup { [ maxSize |-> m ] : m \in 0..MaxMaxSize }

\* the options of a caller who writes the defaults out
DefaultsWrittenOut ==
  [ recursive |-> TRUE,
    fileTypes |-> << ExtJpg, ExtJpeg, ExtPng, ExtGif, ExtWebp, ExtBmp, ExtTiff >> ]

\* Partial<ScanOptions>: every subset of the three fields
OptionsSet ==
  { MergeOptions(MergeOptions(r, t), m) :
      r \in RecursiveOptions, t \in FileTypesOptions, m \in MaxSizeOptions }
    \cup { DefaultsWrittenOut }

(***************************************************************************)
(* The running digest of hash.ts, with an 8-bit state in place of the      *)
(* 256-bit one.                                                            *)
(***************************************************************************)
HexDigits ==
  << "0","1","2","3","4","5","6","7","8","9","a","b","c","d","e","f" >>

\* createHash('sha256')
HashCreate == 89

\* an update that takes in the first byte and the length of each chunk
HashUpdatePerChunk(h, chunk) ==
  IF chunk = << >> THEN h
  ELSE (h * 33 + Head(chunk) + Len(chunk)) % 256

\* hash.update(chunk)
RECURSIVE HashUpdate(_, _)
HashUpdate(h, chunk) ==
  IF chunk = << >> THEN h
  ELSE HashUpdate((h * 33 + Head(chunk) + 1) % 256, Tail(chunk))

\* hash.digest('hex')
HashDigestHex(h) == << HexDigits[(h \div 16) + 1], HexDigits[(h % 16) + 1] >>

\* the value calculateFileHash resolves with for a stream that delivers
\* content and ends
calculateFileHash(content) == HashDigestHex(HashUpdate(HashCreate, content))

(***************************************************************************)
(* File systems.  dirs maps each listable directory to its listing (a      *)
(* listed directory absent from dirs cannot be listed); files maps each    *)
(* file to its content, times and mode: "ok", "unreadable" (stat succeeds, *)
(* opening fails), "gone" (removed after it was listed) or "faulty" (it    *)
(* opens, and a read fails before the end).                                *)
(***************************************************************************)
Dirent(name, kind) == [ name |-> name, kind |-> kind ]

DirD == PathJoin(rootPath, NameD)
DirN == PathJoin(DirD, NameN)
FileA == PathJoin(rootPath, NameA)
FileB == PathJoin(rootPath, NameB)
FileC == PathJoin(DirD, NameC)
FileE == PathJoin(DirN, NameE)

TreeFiles == { FileA, FileB, FileC, FileE }
\* the image files: their mode varies from tree to tree, and so does the
\* size of a.jpg and of e.png; B.JPG is one byte, and the text file c.txt
\* is one readable byte, in every tree
ImageFiles == { FileA, FileB, FileE }
SizedFiles == { FileA, FileE }
TreeDirs  == { rootPath, DirD, DirN }

TreeListing(d) ==
  IF d = rootPath
    THEN << Dirent(NameA, "file"), Dirent(NameD, "dir"),
            Dirent(NameL, "symlink"), Dirent(NameB, "file") >>
  ELSE IF d = DirD
    THEN << Dirent(NameC, "file"), Dirent(NameN, "dir") >>
  ELSE << Dirent(NameE, "file") >>

ByteOf(f) ==
  IF f = FileA THEN 1 ELSE IF f = FileB THEN 2 ELSE IF f = FileC THEN 3 ELSE 4

FileModes == { "ok", "unreadable", "gone" }

MkFs(size, mode, unlistable) ==
  [ dirs  |-> [ d \in TreeDirs \ unlistable |-> TreeListing(d) ],
    files |-> [ f \in TreeFiles |->
                  [ content   |-> [ k \in 1..(IF f \in SizedFiles
                                               THEN size[f] ELSE 1) |->
                                     ByteOf(f) ],
                    birthtime |-> 1,
                    mtime     |-> 2,
                    mode      |-> IF f \in ImageFiles THEN mode[f]
                                  ELSE "ok" ] ] ]

FileSystems ==
  { MkFs(size, mode, unlistable) :
      size \in [ SizedFiles -> 0..MaxFileSize ],
      mode \in { m \in [ ImageFiles -> FileModes ] :
                   Cardinality({ f \in ImageFiles : m[f] # "ok" }) <= MaxFaults },
      unlistable \in { u \in SUBSET TreeDirs : Cardinality(u) <= 1 } }

\* a root directory that exists and has no entries
EmptyRootFs ==
  [ dirs  |-> [ d \in { rootPath } |-> << >> ],
    files |-> [ f \in { } |-> << >> ] ]

\* the tree of the worked scenario: a.jpg (10 bytes), b.png (20 bytes),
\* c.txt (5 bytes) and the directory d holding e.gif (15 bytes)
NameBpng == << "b", ".", "p", "n", "g" >>
NameDir  == << "d" >>
NameEgif == << "e", ".", "g", "i", "f" >>

ScenarioFile(size, byte) ==
  [ content   |-> [ k \in 1..size |-> byte ],
    birthtime |-> 1,
    mtime     |-> 2,
    mode      |-> "ok" ]

ScenarioFs ==
  [ dirs  |->
      [ d \in { rootPath, PathJoin(rootPath, NameDir) } |->
          IF d = rootPath
          THEN << Dirent(NameA, "file"), Dirent(NameBpng, "file"),
                  Dirent(NameC, "file"), Dirent(NameDir, "dir") >>
          ELSE << Dirent(NameEgif, "file") >> ],
    files |->
      [ f \in { PathJoin(rootPath, NameA), PathJoin(rootPath, NameBpng),
                PathJoin(rootPath, NameC),
                PathJoin(PathJoin(rootPath, NameDir), NameEgif) } |->
          IF f = PathJoin(rootPath, NameA) THEN ScenarioFile(10, 1)
          ELSE IF f = PathJoin(rootPath, NameBpng) THEN ScenarioFile(20, 2)
          ELSE IF f = PathJoin(rootPath, NameC) THEN ScenarioFile(5, 3)
          ELSE ScenarioFile(15, 4) ] ]

\* the options of the worked scenario
ScenarioOptions ==
  [ recursive |-> TRUE,
    fileTypes |-> << ExtJpg, ExtPng, ExtGif >>,
    maxSize   |-> 18 ]

\* the trees a scan starts on, and the options a caller passes
InitialFileSystems == FileSystems \cup { EmptyRootFs, ScenarioFs }
CallerOptions == OptionsSet \cup { ScenarioOptions }

(***************************************************************************)
(* State.                                                                  *)
(***************************************************************************)
VARIABLES
  fs,             \* the file system
  pc,             \* where the scan() invocation stands
  options,        \* the options the caller passed to scan()
  mergedOptions,  \* scan: mergedOptions
  results,        \* scan: results, the array scanDirectory appends to
  stack,          \* the scanDirectory calls in progress, outermost first
  pending,        \* dirPath of the scanDirectory call that awaits readdir
  cur,            \* getImageMetadata: filePath, stats and hash so far
  console,        \* what console.error was called with, in order
  ioLog,          \* the file system calls issued and what they read, in order
  returned,       \* what the caller of scan() received
  waiting,        \* a second scan() invocation, while the first one runs
  hashCalls,      \* calculateFileHash: stream, hash and promise of each call
  http,           \* the request the router handles, and its responses
  thisDefaultOptions  \* the scanner's field defaultOptions

vars == << fs, pc, options, mergedOptions, results, stack, pending, cur,
           console, ioLog, returned, waiting, hashCalls, http,
           thisDefaultOptions >>

\* what the steps of scan() leave alone
rest == << waiting, hashCalls, http, thisDefaultOptions >>

\* the variables of a scan() invocation
scanVars == << pc, options, mergedOptions, results, stack, pending, cur,
               ioLog, returned >>

NoCall == [ filePath |-> << >> ]

\* the calls of calculateFileHash that are followed chunk by chunk
HashCallIds == 1..2

\* a call of calculateFileHash that has not been made
NoHashCall ==
  [ stream      |-> "none",
    filePath    |-> << >>,
    offset      |-> 0,
    chunks      |-> 0,
    hash        |-> HashCreate,
    promise     |-> [ status |-> "pending" ],
    settleCalls |-> 0 ]

\* no request received
NoRequest ==
  [ route |-> "none", state |-> "idle", responses |-> << >>,
    served |-> << >> ]

\* an invocation that has not been called yet
NotCalled ==
  [ pc            |-> "idle",
    options       |-> [ k \in { } |-> TRUE ],
    mergedOptions |-> [ k \in { } |-> TRUE ],
    results       |-> << >>,
    stack         |-> << >>,
    pending       |-> << >>,
    cur           |-> NoCall,
    ioLog         |-> << >>,
    returned      |-> [ status |-> "pending" ] ]

\* nothing has been called
NothingCalled ==
  /\ pc = "idle"
  /\ options = NoOptions
  /\ mergedOptions = NoOptions
  /\ results = << >>
  /\ stack = << >>
  /\ pending = << >>
  /\ cur = NoCall
  /\ console = << >>
  /\ ioLog = << >>
  /\ returned = [ status |-> "pending" ]
  /\ waiting = NotCalled
  /\ hashCalls = [ i \in HashCallIds |-> NoHashCall ]
  /\ http = NoRequest
  /\ thisDefaultOptions = defaultOptions

Init == fs \in InitialFileSystems /\ NothingCalled

(***************************************************************************)
(* The file system calls.                                                  *)
(***************************************************************************)
Failure(code, path) == [ ok |-> FALSE, code |-> code, path |-> path ]

\* a readdir that fails on a directory without entries
ReaddirInEmptyFails(fsx, dirPath) ==
  IF dirPath \in DOMAIN fsx.dirs /\ fsx.dirs[dirPath] # << >>
  THEN [ ok |-> TRUE, entries |-> fsx.dirs[dirPath] ]
  ELSE [ ok |-> FALSE, code |-> "ENOENT", path |-> dirPath ]

\* fs.readdir(dirPath, { withFileTypes: true }) on the file system fsx
ReaddirIn(fsx, dirPath) ==
  IF dirPath \in DOMAIN fsx.dirs
  THEN [ ok |-> TRUE, entries |-> fsx.dirs[dirPath] ]
  ELSE Failure("ENOENT", dirPath)

\* fs.stat(filePath) on the file system fsx
StatIn(fsx, filePath) ==
  IF filePath \in DOMAIN fsx.files /\ fsx.files[filePath].mode # "gone"
  THEN [ ok |-> TRUE,
         stats |-> [ size      |-> Len(fsx.files[filePath].content),
                     birthtime |-> fsx.files[filePath].birthtime,
                     mtime     |-> fsx.files[filePath].mtime ] ]
  ELSE Failure("ENOENT", filePath)

\* createReadStream(filePath) on the file system fsx: the bytes the stream
\* delivers before 'end', or the 'error' it emits
ReadStreamIn(fsx, filePath) ==
  IF filePath \notin DOMAIN fsx.files \/ fsx.files[filePath].mode = "gone"
    THEN Failure("ENOENT", filePath)
  ELSE IF fsx.files[filePath].mode = "unreadable"
    THEN Failure("EACCES", filePath)
  ELSE IF fsx.files[filePath].mode = "faulty"
    THEN Failure("EIO", filePath)
  ELSE [ ok |-> TRUE, content |-> fsx.files[filePath].content ]

Readdir(dirPath) == ReaddirIn(fs, dirPath)
Stat(filePath) == StatIn(fs, filePath)
ReadStream(filePath) == ReadStreamIn(fs, filePath)

(***************************************************************************)
(* FileScanner's predicates.                                               *)
(***************************************************************************)
\* isValidImageFile without toLowerCase
isValidImageFileCaseSensitive(fileName, opts) ==
  Includes(opts.fileTypes, Extname(fileName))

isValidImageFile(fileName, opts) ==
  Includes(opts.fileTypes, ToLowerCase(Extname(fileName)))

\* if (maxSize === undefined) return true; return metadata.size < maxSize;
isValidSizeStrict(metadata, maxSize) ==
  \A m \in maxSize : metadata.size < m

\* a size predicate that accepts every file
isValidSizeUnbounded(metadata, maxSize) == TRUE

\* if (!maxSize) return true; return metadata.size <= maxSize;
isValidSize(metadata, maxSize) ==
  IF maxSize = { } \/ maxSize = { 0 } THEN TRUE
  ELSE \A m \in maxSize : metadata.size <= m

\* getImageMetadata with the arguments of path.relative exchanged
ImageMetadataRelativeFromFile(filePath, stats, hash) ==
  [ path         |-> PathRelative(filePath, rootPath),
    absolutePath |-> PathResolve(filePath),
    size         |-> stats.size,
    hash         |-> hash,
    created      |-> stats.birthtime,
    modified     |-> stats.mtime ]

\* getImageMetadata with stats.mtime where stats.size is meant
ImageMetadataSizeFromMtime(filePath, stats, hash) ==
  [ path         |-> PathRelative(rootPath, filePath),
    absolutePath |-> PathResolve(filePath),
    size         |-> stats.mtime,
    hash         |-> hash,
    created      |-> stats.birthtime,
    modified     |-> stats.mtime ]

\* the record getImageMetadata returns
ImageMetadata(filePath, stats, hash) ==
  [ path         |-> PathRelative(rootPath, filePath),
    absolutePath |-> PathResolve(filePath),
    size         |-> stats.size,
    hash         |-> hash,
    created      |-> stats.birthtime,
    modified     |-> stats.mtime ]

\* a catch block that swallows the error without reporting it
LogFileErrorSilent(log, fullPath, error) == log

\* console.error(`Error processing file ${fullPath}:`, error)
LogFileError(log, fullPath, error) ==
  Append(log, [ message |-> "Error processing file", path |-> fullPath,
                error |-> error ])

\* console.error(`Error scanning directory ${this.rootPath}:`, error)
LogScanError(log, error) ==
  Append(log, [ message |-> "Error scanning directory", path |-> rootPath,
                error |-> error ])

\* Descends with !entry.isFile() in the place of entry.isDirectory()
DescendsIntoLinks(entry, opts) == entry.kind # "file" /\ opts.recursive

\* Descends without the test of options.recursive
DescendsAlways(entry, opts) == entry.kind = "dir"

\* if (entry.isDirectory() && options.recursive)
Descends(entry, opts) == entry.kind = "dir" /\ opts.recursive

\* Processes without the test of entry.isFile()
ProcessesAnyEntry(entry, opts) == isValidImageFile(entry.name, opts)

\* Processes with !entry.isDirectory() in the place of entry.isFile()
ProcessesNotDirectory(entry, opts) ==
  /\ entry.kind # "dir"
  /\ isValidImageFile(entry.name, opts)

\* if (entry.isFile() && this.isValidImageFile(entry.name, options))
Processes(entry, opts) ==
  entry.kind = "file" /\ isValidImageFile(entry.name, opts)

(***************************************************************************)
(* scan() as a function of an unchanging file system and the options: the  *)
(* outcome of running the code to completion.  acc carries results and the *)
(* console; ok is FALSE once a readdir has rejected.                       *)
(***************************************************************************)
\* the body of the try block of the loop, with its catch
processFile(fsx, fullPath, opts, acc) ==
  LET st == StatIn(fsx, fullPath)
      rs == ReadStreamIn(fsx, fullPath)
      md == ImageMetadata(fullPath, st.stats, calculateFileHash(rs.content))
  IN  IF ~st.ok THEN [ acc EXCEPT !.console = LogFileError(@, fullPath, st) ]
      ELSE IF ~rs.ok THEN [ acc EXCEPT !.console = LogFileError(@, fullPath, rs) ]
      ELSE IF isValidSize(md, MaxSizeOf(opts))
        THEN [ acc EXCEPT !.results = Append(@, md) ]
      ELSE acc

\* scanDirectory(dirPath, results, options) from its i-th entry on
RECURSIVE scanDirectory(_, _, _, _, _)
scanDirectory(fsx, dirPath, i, opts, acc) ==
  LET rd == ReaddirIn(fsx, dirPath)
      entry == rd.entries[i]
      fullPath == PathJoin(dirPath, entry.name)
      sub == scanDirectory(fsx, fullPath, 1, opts, acc)
  IN  IF ~rd.ok THEN [ acc EXCEPT !.ok = FALSE, !.error = rd ]
      ELSE IF i > Len(rd.entries) THEN acc
      ELSE IF Descends(entry, opts)
        THEN IF sub.ok THEN scanDirectory(fsx, dirPath, i + 1, opts, sub)
             ELSE sub
      ELSE IF Processes(entry, opts)
        THEN scanDirectory(fsx, dirPath, i + 1, opts,
                           processFile(fsx, fullPath, opts, acc))
      ELSE scanDirectory(fsx, dirPath, i + 1, opts, acc)

scan(fsx, opts) ==
  LET walk == scanDirectory(fsx, rootPath, 1, MergeOptions(defaultOptions, opts),
                [ ok |-> TRUE, error |-> << >>, results |-> << >>,
                  console |-> << >> ])
  IN  IF walk.ok THEN walk
      ELSE [ walk EXCEPT !.console = LogScanError(@, walk.error) ]

(***************************************************************************)
(* The walker that stats each type-matching file and applies the size      *)
(* predicate before it hashes: the hash of an oversized file is skipped.   *)
(***************************************************************************)
processFileSizeFirst(fsx, fullPath, opts, acc) ==
  LET st == StatIn(fsx, fullPath)
      rs == ReadStreamIn(fsx, fullPath)
      md == ImageMetadata(fullPath, st.stats, calculateFileHash(rs.content))
  IN  IF ~st.ok THEN [ acc EXCEPT !.console = LogFileError(@, fullPath, st) ]
      ELSE IF ~isValidSize([ size |-> st.stats.size ], MaxSizeOf(opts)) THEN acc
      ELSE IF ~rs.ok THEN [ acc EXCEPT !.console = LogFileError(@, fullPath, rs) ]
      ELSE [ acc EXCEPT !.results = Append(@, md) ]

RECURSIVE scanDirectorySizeFirst(_, _, _, _, _)
scanDirectorySizeFirst(fsx, dirPath, i, opts, acc) ==
  LET rd == ReaddirIn(fsx, dirPath)
      entry == rd.entries[i]
      fullPath == PathJoin(dirPath, entry.name)
      sub == scanDirectorySizeFirst(fsx, fullPath, 1, opts, acc)
  IN  IF ~rd.ok THEN [ acc EXCEPT !.ok = FALSE, !.error = rd ]
      ELSE IF i > Len(rd.entries) THEN acc
      ELSE IF Descends(entry, opts)
        THEN IF sub.ok THEN scanDirectorySizeFirst(fsx, dirPath, i + 1, opts, sub)
             ELSE sub
      ELSE IF Processes(entry, opts)
        THEN scanDirectorySizeFirst(fsx, dirPath, i + 1, opts,
                                    processFileSizeFirst(fsx, fullPath, opts, acc))
      ELSE scanDirectorySizeFirst(fsx, dirPath, i + 1, opts, acc)

scanSizeFirst(fsx, opts) ==
  LET walk == scanDirectorySizeFirst(fsx, rootPath, 1,
                MergeOptions(defaultOptions, opts),
                [ ok |-> TRUE, error |-> << >>, results |-> << >>,
                  console |-> << >> ])
  IN  IF walk.ok THEN walk
      ELSE [ walk EXCEPT !.console = LogScanError(@, walk.error) ]

(***************************************************************************)
(* scan() and scanDirectory(), one step for each await.                    *)
(***************************************************************************)
Top == stack[Len(stack)]
AtEntry == pc = "loop" /\ Top.i <= Len(Top.entries)
Entry == Top.entries[Top.i]
FullPath == PathJoin(Top.dirPath, Entry.name)
NextEntry == [ stack EXCEPT ![Len(stack)].i = @ + 1 ]

\* scan(options): merge, create results, call scanDirectory(rootPath, ...)
ScanCall(opts) ==
  /\ pc = "idle"
  /\ options' = opts
  /\ mergedOptions' = MergeOptions(thisDefaultOptions, opts)
  /\ results' = << >>
  /\ pending' = rootPath
  /\ ioLog' = Append(ioLog, << "readdir", rootPath >>)
  /\ pc' = "readdir"
  /\ UNCHANGED << fs, stack, cur, console, returned >>

\* Scan with Object.assign(this.defaultOptions, options) for the merge
ScanAssignsDefaults(opts) ==
  /\ pc = "idle"
  /\ options' = opts
  /\ thisDefaultOptions' = MergeOptions(thisDefaultOptions, opts)
  /\ mergedOptions' = thisDefaultOptions'
  /\ results' = << >>
  /\ pending' = rootPath
  /\ ioLog' = Append(ioLog, << "readdir", rootPath >>)
  /\ pc' = "readdir"
  /\ UNCHANGED << fs, stack, cur, console, returned, waiting, hashCalls, http >>

\* scan(options), called by a caller that is not followed
Scan(opts) == ScanCall(opts) /\ UNCHANGED rest

\* ReaddirOk with the nested call deferred: the for loop of the caller
\* finishes before the loop of the subdirectory starts
ReaddirOkDeferred ==
  /\ pc = "readdir"
  /\ Readdir(pending).ok
  /\ stack' = << [ dirPath |-> pending,
                   entries |-> Readdir(pending).entries,
                   i       |-> 1 ] >> \o stack
  /\ pending' = << >>
  /\ pc' = "loop"
  /\ UNCHANGED << rest, fs, options, mergedOptions, results, cur, console, ioLog,
                  returned >>

\* readdir resolves: the for loop of this scanDirectory call starts
ReaddirOk ==
  /\ pc = "readdir"
  /\ Readdir(pending).ok
  /\ stack' = Append(stack, [ dirPath |-> pending,
                              entries |-> Readdir(pending).entries,
                              i       |-> 1 ])
  /\ pending' = << >>
  /\ pc' = "loop"
  /\ UNCHANGED << rest, fs, options, mergedOptions, results, cur, console, ioLog,
                  returned >>

\* what the caller of scan() gets when scan throws
Rejection(error) == [ status |-> "rejected", error |-> error ]

\* ReaddirFail with a catch that returns results instead of rethrowing
ReaddirFailReturnsResults ==
  /\ pc = "readdir"
  /\ ~Readdir(pending).ok
  /\ console' = LogScanError(console, Readdir(pending))
  /\ returned' = [ status |-> "resolved", value |-> results ]
  /\ stack' = << >>
  /\ pending' = << >>
  /\ pc' = "resolved"
  /\ UNCHANGED << rest, fs, options, mergedOptions, results, cur, ioLog >>

\* readdir rejects: no scanDirectory call catches, so every call in progress
\* rejects and the catch of scan logs and rethrows
ReaddirFail ==
  /\ pc = "readdir"
  /\ ~Readdir(pending).ok
  /\ console' = LogScanError(console, Readdir(pending))
  /\ returned' = Rejection(Readdir(pending))
  /\ stack' = << >>
  /\ pending' = << >>
  /\ pc' = "rejected"
  /\ UNCHANGED << rest, fs, options, mergedOptions, results, cur, ioLog >>

\* await this.scanDirectory(fullPath, results, options); continue;
EnterDirectory ==
  /\ AtEntry
  /\ Descends(Entry, mergedOptions)
  /\ pending' = FullPath
  /\ ioLog' = Append(ioLog, << "readdir", FullPath >>)
  /\ stack' = NextEntry
  /\ pc' = "readdir"
  /\ UNCHANGED << rest, fs, options, mergedOptions, results, cur, console, returned >>

\* await this.getImageMetadata(fullPath), up to its fs.stat call
BeginFile ==
  /\ AtEntry
  /\ ~Descends(Entry, mergedOptions)
  /\ Processes(Entry, mergedOptions)
  /\ cur' = [ filePath |-> FullPath ]
  /\ ioLog' = Append(ioLog, << "stat", FullPath >>)
  /\ pc' = "stat"
  /\ UNCHANGED << rest, fs, options, mergedOptions, results, stack, pending,
                  console, returned >>

\* an entry that is neither descended into nor processed
SkipEntry ==
  /\ AtEntry
  /\ ~Descends(Entry, mergedOptions)
  /\ ~Processes(Entry, mergedOptions)
  /\ stack' = NextEntry
  /\ UNCHANGED << rest, fs, pc, options, mergedOptions, results, pending, cur,
                  console, ioLog, returned >>

\* StatOk without waiting for the hash: the stream is opened and the loop
\* goes on to the next entry
StatOkUnawaited ==
  /\ pc = "stat"
  /\ Stat(cur.filePath).ok
  /\ cur' = NoCall
  /\ ioLog' = Append(ioLog, << "open", cur.filePath >>)
  /\ stack' = NextEntry
  /\ pc' = "loop"
  /\ UNCHANGED << rest, fs, options, mergedOptions, results, pending, console,
                  returned >>

\* fs.stat resolves: calculateFileHash opens the stream
StatOk ==
  /\ pc = "stat"
  /\ Stat(cur.filePath).ok
  /\ cur' = [ filePath |-> cur.filePath, stats |-> Stat(cur.filePath).stats ]
  /\ ioLog' = Append(ioLog, << "open", cur.filePath >>)
  /\ pc' = "hash"
  /\ UNCHANGED << rest, fs, options, mergedOptions, results, stack, pending,
                  console, returned >>

\* StatFail with one retry: a first rejection of fs.stat calls it again
StatFailRetries ==
  /\ pc = "stat"
  /\ ~Stat(cur.filePath).ok
  /\ IF Cardinality({ k \in 1..Len(ioLog) : ioLog[k] = << "stat", cur.filePath >> }) < 2
     THEN /\ ioLog' = Append(ioLog, << "stat", cur.filePath >>)
          /\ UNCHANGED << console, cur, stack, pc >>
     ELSE /\ console' = LogFileError(console, cur.filePath, Stat(cur.filePath))
          /\ cur' = NoCall
          /\ stack' = NextEntry
          /\ pc' = "loop"
          /\ UNCHANGED ioLog
  /\ UNCHANGED << rest, fs, options, mergedOptions, results, pending, returned >>

\* fs.stat rejects: the catch of the loop body logs, the loop goes on
StatFail ==
  /\ pc = "stat"
  /\ ~Stat(cur.filePath).ok
  /\ console' = LogFileError(console, cur.filePath, Stat(cur.filePath))
  /\ cur' = NoCall
  /\ stack' = NextEntry
  /\ pc' = "loop"
  /\ UNCHANGED << rest, fs, options, mergedOptions, results, pending, ioLog,
                  returned >>

\* the stream ends: calculateFileHash resolves, getImageMetadata returns
HashOk ==
  /\ pc = "hash"
  /\ ReadStream(cur.filePath).ok
  /\ cur' = [ filePath |-> cur.filePath,
              metadata |-> ImageMetadata(cur.filePath, cur.stats,
                             calculateFileHash(ReadStream(cur.filePath).content)) ]
  /\ ioLog' = Append(ioLog, << "read", cur.filePath,
                                ReadStream(cur.filePath).content >>)
  /\ pc' = "size"
  /\ UNCHANGED << rest, fs, options, mergedOptions, results, stack, pending,
                  console, returned >>

\* HashFail without the try/catch of the loop body: the rejection of
\* calculateFileHash leaves scanDirectory and reaches the catch of scan
HashFailUncaught ==
  /\ pc = "hash"
  /\ ~ReadStream(cur.filePath).ok
  /\ console' = LogScanError(console, ReadStream(cur.filePath))
  /\ returned' = [ status |-> "rejected", error |-> ReadStream(cur.filePath) ]
  /\ cur' = NoCall
  /\ stack' = << >>
  /\ pc' = "rejected"
  /\ UNCHANGED << rest, fs, options, mergedOptions, results, pending, ioLog >>

\* the stream emits 'error': calculateFileHash rejects, the catch logs
HashFail ==
  /\ pc = "hash"
  /\ ~ReadStream(cur.filePath).ok
  /\ console' = LogFileError(console, cur.filePath, ReadStream(cur.filePath))
  /\ cur' = NoCall
  /\ stack' = NextEntry
  /\ pc' = "loop"
  /\ UNCHANGED << rest, fs, options, mergedOptions, results, pending, ioLog,
                  returned >>

\* SizeCheck without the size test: every record is pushed
SizeCheckAlwaysPushes ==
  /\ pc = "size"
  /\ results' = Append(results, cur.metadata)
  /\ cur' = NoCall
  /\ stack' = NextEntry
  /\ pc' = "loop"
  /\ UNCHANGED << rest, fs, options, mergedOptions, pending, console, ioLog,
                  returned >>

\* if (await this.isValidSize(metadata, options.maxSize)) results.push(metadata)
SizeCheck ==
  /\ pc = "size"
  /\ results' = IF isValidSize(cur.metadata, MaxSizeOf(mergedOptions))
                THEN Append(results, cur.metadata)
                ELSE results
  /\ cur' = NoCall
  /\ stack' = NextEntry
  /\ pc' = "loop"
  /\ UNCHANGED << rest, fs, options, mergedOptions, pending, console, ioLog,
                  returned >>

\* the for loop of a nested scanDirectory call ends: its caller continues
ReturnFromDirectory ==
  /\ pc = "loop"
  /\ Top.i > Len(Top.entries)
  /\ Len(stack) > 1
  /\ stack' = SubSeq(stack, 1, Len(stack) - 1)
  /\ UNCHANGED << rest, fs, pc, options, mergedOptions, results, pending, cur,
                  console, ioLog, returned >>

\* what the caller of scan() gets when scan returns
Resolution(value) == [ status |-> "resolved", value |-> value ]

\* the for loop of scanDirectory(rootPath) ends: return results
Resolve ==
  /\ pc = "loop"
  /\ Top.i > Len(Top.entries)
  /\ Len(stack) = 1
  /\ returned' = Resolution(results)
  /\ stack' = << >>
  /\ pc' = "resolved"
  /\ UNCHANGED << rest, fs, options, mergedOptions, results, pending, cur, console,
                  ioLog >>

\* the steps of an invocation after its call
Step ==
  \/ ReaddirOk
  \/ ReaddirFail
  \/ EnterDirectory
  \/ BeginFile
  \/ SkipEntry
  \/ StatOk
  \/ StatFail
  \/ HashOk
  \/ HashFail
  \/ SizeCheck
  \/ ReturnFromDirectory
  \/ Resolve

Next ==
  \/ \E opts \in CallerOptions : Scan(opts)
  \/ Step

Spec == Init /\ [][Next]_vars

\* the trees of the fair runs: every file of one byte, any of the files
\* failing, any one of the directories unlistable
FairFileSystems ==
  { MkFs([ f \in SizedFiles |-> 1 ], mode, unlistable) :
      mode \in { m \in [ ImageFiles -> FileModes ] :
                   Cardinality({ f \in ImageFiles : m[f] # "ok" }) <= MaxFaults },
      unlistable \in { { }, { rootPath }, { DirD }, { DirN } } }

InitFair == fs \in FairFileSystems /\ NothingCalled

\* the event loop runs the continuation of every await whose promise has
\* settled, and every fs promise settles
SpecFair == InitFair /\ [][Next]_vars /\ WF_vars(Step)

(***************************************************************************)
(* A scan during which another process writes to the file being processed: *)
(* before fs.stat answers, between fs.stat and the read of the stream, or  *)
(* after the read.                                                         *)
(***************************************************************************)
\* the number of writes of the other process
MaxWrites == 1

Writes == Cardinality({ k \in 1..Len(ioLog) : ioLog[k][1] = "write" })

\* what the other process leaves in the file: n bytes, none of them a byte
\* the file held before
Rewritten(file, n) ==
  [ file EXCEPT !.content = [ k \in 1..n |-> 7 ],
                !.mtime = @ + 1 ]

\* another process grows, shrinks or rewrites the file in process
ExternalWrite(n) ==
  /\ pc \in { "stat", "hash", "size" }
  /\ Writes < MaxWrites
  /\ cur.filePath \in DOMAIN fs.files
  /\ fs.files[cur.filePath].mode = "ok"
  /\ fs' = [ fs EXCEPT !.files[cur.filePath] = Rewritten(@, n) ]
  /\ ioLog' = Append(ioLog, << "write", cur.filePath >>)
  /\ UNCHANGED << rest, pc, options, mergedOptions, results, stack, pending,
                  cur, console, returned >>

\* the trees of these scans, a.jpg and e.png of one byte, and their options
RaceFileSystems ==
  { MkFs([ f \in SizedFiles |-> 1 ], mode, unlistable) :
      mode \in { m \in [ ImageFiles -> FileModes ] :
                   Cardinality({ f \in ImageFiles : m[f] # "ok" }) <= MaxFaults },
      unlistable \in { { }, { DirN } } }

RaceOptions == { NoOptions, [ maxSize |-> MaxMaxSize ] }

InitRace == fs \in RaceFileSystems /\ NothingCalled

NextRace ==
  \/ \E opts \in RaceOptions : Scan(opts)
  \/ Step
  \/ \E n \in 0..MaxFileSize : ExternalWrite(n)

SpecRace == InitRace /\ [][NextRace]_vars

(***************************************************************************)
(* Two scan() invocations on one event loop.  One runs, the other waits at *)
(* an await (or has not been called, or has returned) with its own         *)
(* options, mergedOptions, results and position; the file system and the   *)
(* console are the same for both.                                          *)
(***************************************************************************)
\* the invocation that runs, as it will be found when it runs again
Running ==
  [ pc            |-> pc,
    options       |-> options,
    mergedOptions |-> mergedOptions,
    results       |-> results,
    stack         |-> stack,
    pending       |-> pending,
    cur           |-> cur,
    ioLog         |-> ioLog,
    returned      |-> returned ]

\* Switch with results a field of the scanner that both invocations use
SwitchSharedResults ==
  /\ waiting' = Running
  /\ pc' = waiting.pc
  /\ options' = waiting.options
  /\ mergedOptions' = waiting.mergedOptions
  /\ results' = results
  /\ stack' = waiting.stack
  /\ pending' = waiting.pending
  /\ cur' = waiting.cur
  /\ ioLog' = waiting.ioLog
  /\ returned' = waiting.returned
  /\ UNCHANGED << fs, console, thisDefaultOptions, hashCalls, http >>

\* the event loop runs the other invocation: results is a const of scan(),
\* one array for each call
Switch ==
  /\ waiting' = Running
  /\ pc' = waiting.pc
  /\ options' = waiting.options
  /\ mergedOptions' = waiting.mergedOptions
  /\ results' = waiting.results
  /\ stack' = waiting.stack
  /\ pending' = waiting.pending
  /\ cur' = waiting.cur
  /\ ioLog' = waiting.ioLog
  /\ returned' = waiting.returned
  /\ UNCHANGED << fs, console, thisDefaultOptions, hashCalls, http >>

\* the trees and the options of the two invocations
TwoFileSystems ==
  { MkFs([ f \in SizedFiles |-> MaxFileSize ], mode, unlistable) :
      mode \in { m \in [ ImageFiles -> FileModes ] :
                   Cardinality({ f \in ImageFiles : m[f] # "ok" }) <= MaxFaults },
      unlistable \in { { }, { DirN } } }

TwoOptions ==
  { NoOptions, [ recursive |-> FALSE ], [ maxSize |-> MaxMaxSize ] }

InitTwo == fs \in TwoFileSystems /\ NothingCalled

NextTwo ==
  \/ \E opts \in TwoOptions : Scan(opts)
  \/ Step
  \/ Switch

SpecTwo == InitTwo /\ [][NextTwo]_vars

(***************************************************************************)
(* calculateFileHash, one step for each event of the stream.               *)
(***************************************************************************)
\* createReadStream(filePath, { highWaterMark: 64 * 1024 }), in bytes of
\* the model
highWaterMark == 2

Min(a, b) == IF a <= b THEN a ELSE b

\* resolve(value) and reject(error) of a promise: the first call settles it
Settle(promise, outcome) ==
  IF promise.status = "pending" THEN outcome ELSE promise

\* calculateFileHash(filePath): createHash, createReadStream and the three
\* handlers
CalculateFileHash(i, filePath) ==
  /\ hashCalls[i].stream = "none"
  /\ hashCalls' = [ hashCalls EXCEPT ![i] =
                      [ NoHashCall EXCEPT !.stream = "opening",
                                          !.filePath = filePath ] ]
  /\ UNCHANGED << fs, scanVars, console, waiting, thisDefaultOptions, http >>

\* the stream opens the file
StreamOpen(i) ==
  /\ hashCalls[i].stream = "opening"
  /\ hashCalls[i].filePath \in DOMAIN fs.files
  /\ fs.files[hashCalls[i].filePath].mode \in { "ok", "faulty" }
  /\ hashCalls' = [ hashCalls EXCEPT ![i].stream = "flowing" ]
  /\ UNCHANGED << fs, scanVars, console, waiting, thisDefaultOptions, http >>

\* the file cannot be opened: 'error', the handler is reject
StreamOpenError(i) ==
  /\ hashCalls[i].stream = "opening"
  /\ ~ReadStream(hashCalls[i].filePath).ok
  /\ ReadStream(hashCalls[i].filePath).code # "EIO"
  /\ hashCalls' =
       [ hashCalls EXCEPT
           ![i].stream = "errored",
           ![i].promise = Settle(@, Rejection(ReadStream(hashCalls[i].filePath))),
           ![i].settleCalls = @ + 1 ]
  /\ UNCHANGED << fs, scanVars, console, waiting, thisDefaultOptions, http >>

\* StreamData with the hash object created once for the module, not once
\* for each call
StreamDataSharedHash(i, n) ==
  LET call == hashCalls[i]
      content == fs.files[call.filePath].content
      chunk == SubSeq(content, call.offset + 1, call.offset + n)
  IN  /\ call.stream = "flowing"
      /\ n <= Min(highWaterMark, Len(content) - call.offset)
      /\ hashCalls' =
           [ j \in HashCallIds |->
               IF j = i
               THEN [ call EXCEPT !.offset = @ + n, !.chunks = @ + 1,
                                  !.hash = HashUpdate(@, chunk) ]
               ELSE [ hashCalls[j] EXCEPT !.hash = HashUpdate(@, chunk) ] ]
      /\ UNCHANGED << fs, scanVars, console, waiting, thisDefaultOptions, http >>

\* 'data': a chunk of n bytes, at most highWaterMark; hash.update(chunk)
StreamData(i, n) ==
  LET call == hashCalls[i]
      content == fs.files[call.filePath].content
      chunk == SubSeq(content, call.offset + 1, call.offset + n)
  IN  /\ call.stream = "flowing"
      /\ n <= Min(highWaterMark, Len(content) - call.offset)
      /\ hashCalls' = [ hashCalls EXCEPT ![i].offset = @ + n,
                                         ![i].chunks = @ + 1,
                                         ![i].hash = HashUpdate(@, chunk) ]
      /\ UNCHANGED << fs, scanVars, console, waiting, thisDefaultOptions, http >>

\* StreamReadError with a handler that resolves with the digest so far
StreamReadErrorResolves(i) ==
  /\ hashCalls[i].stream = "flowing"
  /\ fs.files[hashCalls[i].filePath].mode = "faulty"
  /\ hashCalls' =
       [ hashCalls EXCEPT
           ![i].stream = "errored",
           ![i].promise = Settle(@, Resolution(HashDigestHex(hashCalls[i].hash))),
           ![i].settleCalls = @ + 1 ]
  /\ UNCHANGED << fs, scanVars, console, waiting, thisDefaultOptions, http >>

\* a read fails: 'error', the handler is reject; the stream is destroyed
\* and emits neither 'data' nor 'end' afterwards
StreamReadError(i) ==
  /\ hashCalls[i].stream = "flowing"
  /\ fs.files[hashCalls[i].filePath].mode = "faulty"
  /\ hashCalls' =
       [ hashCalls EXCEPT
           ![i].stream = "errored",
           ![i].promise = Settle(@, Rejection(ReadStream(hashCalls[i].filePath))),
           ![i].settleCalls = @ + 1 ]
  /\ UNCHANGED << fs, scanVars, console, waiting, thisDefaultOptions, http >>

\* 'end': resolve(hash.digest('hex'))
StreamEnd(i) ==
  /\ hashCalls[i].stream = "flowing"
  /\ fs.files[hashCalls[i].filePath].mode = "ok"
  /\ hashCalls[i].offset = Len(fs.files[hashCalls[i].filePath].content)
  /\ hashCalls' =
       [ hashCalls EXCEPT
           ![i].stream = "ended",
           ![i].promise = Settle(@, Resolution(HashDigestHex(hashCalls[i].hash))),
           ![i].settleCalls = @ + 1 ]
  /\ UNCHANGED << fs, scanVars, console, waiting, thisDefaultOptions, http >>

\* the events of the stream of call i
StreamEvent(i) ==
  \/ StreamOpen(i)
  \/ StreamOpenError(i)
  \/ \E n \in 1..highWaterMark : StreamData(i, n)
  \/ StreamReadError(i)
  \/ StreamEnd(i)

\* the file that is hashed: every content of at most MaxFileSize bytes
Contents == UNION { [ 1..n -> { 1, 2 } ] : n \in 0..MaxFileSize }

StreamModes == FileModes \cup { "faulty" }

HashFileSystems ==
  { [ dirs  |-> [ d \in { rootPath } |-> << Dirent(NameA, "file") >> ],
      files |-> [ f \in { FileA } |->
                    [ content   |-> content,
                      birthtime |-> 1,
                      mtime     |-> 2,
                      mode      |-> mode ] ] ] :
      content \in Contents, mode \in StreamModes }

InitHash == fs \in HashFileSystems /\ NothingCalled

NextHash ==
  \/ \E i \in HashCallIds : CalculateFileHash(i, FileA)
  \/ \E i \in HashCallIds : StreamEvent(i)

SpecHash == InitHash /\ [][NextHash]_vars

(***************************************************************************)
(* The router: POST /scan and POST /validate on a body that express.json() *)
(* has parsed.  A value of the body is undefined, a string (here a path,   *)
(* the empty string being the empty path) or a number.                     *)
(***************************************************************************)
Undefined == [ type |-> "undefined" ]
Str(p) == [ type |-> "string", value |-> p ]
Num(n) == [ type |-> "number", number |-> n ]

\* the values that pass if (!scanPath), if (!testPath)
Truthy(v) ==
  \/ v.type = "string" /\ v.value # << >>
  \/ v.type = "number" /\ v.number # 0

\* path.resolve(v) throws a TypeError unless v is a string
ResolveThrows(v) == v.type # "string"

TypeError == [ ok |-> FALSE, code |-> "ERR_INVALID_ARG_TYPE" ]

\* const { path: scanPath, options = {} } = req.body
BodyPath(body) == IF "path" \in DOMAIN body THEN body.path ELSE Undefined
BodyOptions(body) ==
  IF "options" \in DOMAIN body THEN body.options ELSE NoOptions

Response(status, body) == [ status |-> status, body |-> body ]

InvalidRequest ==
  Response(400, [ code |-> "INVALID_REQUEST", message |-> "Path is required" ])

ScanError(error, scanPath, opts) ==
  Response(500, [ code    |-> "SCAN_ERROR",
                  message |-> error.code,
                  details |-> [ path |-> scanPath, options |-> opts ] ])

\* the ScanResult; id is uuidv4() and timestamp is new Date()
ScanResult(id, now, images) ==
  [ id |-> id, timestamp |-> now, totalFiles |-> Len(images),
    images |-> images ]

Uuids == { "uuid-1", "uuid-2" }
Now == 3

Handled(route, body, response) ==
  [ route |-> route, state |-> "done", body |-> body,
    responses |-> Append(http.responses, response),
    served |-> http.served ]

\* PostScan without the return that follows res.status(400).json(error)
PostScanNoReturn(body) ==
  /\ http.state = "idle"
  /\ IF ~Truthy(BodyPath(body)) \/ ResolveThrows(BodyPath(body))
     THEN /\ http' = [ route |-> "scan", state |-> "done", body |-> body,
                       responses |->
                         (IF Truthy(BodyPath(body)) THEN << >>
                          ELSE << InvalidRequest >>)
                         \o << ScanError(TypeError, BodyPath(body),
                                         BodyOptions(body)) >>,
                       served |-> http.served ]
          /\ UNCHANGED << fs, scanVars, console, waiting, thisDefaultOptions, hashCalls >>
     ELSE /\ PathResolve(BodyPath(body).value) = rootPath
          /\ http' = [ route |-> "scan", state |-> "scanning", body |-> body,
                       responses |-> << >>, served |-> http.served ]
          /\ ScanCall(BodyOptions(body))
          /\ UNCHANGED << waiting, thisDefaultOptions, hashCalls >>

\* POST /scan, up to the await of scanner.scan(options)
PostScan(body) ==
  /\ http.state = "idle"
  /\ IF ~Truthy(BodyPath(body))
     THEN /\ http' = Handled("scan", body, InvalidRequest)
          /\ UNCHANGED << fs, scanVars, console, waiting, thisDefaultOptions, hashCalls >>
     ELSE IF ResolveThrows(BodyPath(body))
     THEN /\ http' = Handled("scan", body,
                        ScanError(TypeError, BodyPath(body), BodyOptions(body)))
          /\ UNCHANGED << fs, scanVars, console, waiting, thisDefaultOptions, hashCalls >>
     ELSE /\ PathResolve(BodyPath(body).value) = rootPath
          /\ http' = [ route |-> "scan", state |-> "scanning", body |-> body,
                       responses |-> << >>, served |-> http.served ]
          /\ ScanCall(BodyOptions(body))
          /\ UNCHANGED << waiting, thisDefaultOptions, hashCalls >>

\* PostScanRespond with a catch block that answers an empty ScanResult
PostScanRespondSwallows(id) ==
  /\ http.route = "scan"
  /\ http.state = "scanning"
  /\ returned.status # "pending"
  /\ http' = Handled("scan", http.body,
       IF returned.status = "resolved"
       THEN Response(200, ScanResult(id, Now, returned.value))
       ELSE Response(200, ScanResult(id, Now, << >>)))
  /\ UNCHANGED << fs, scanVars, console, waiting, thisDefaultOptions, hashCalls >>

\* POST /scan, after the await: the ScanResult, or the catch block
PostScanRespond(id) ==
  /\ http.route = "scan"
  /\ http.state = "scanning"
  /\ returned.status # "pending"
  /\ http' = Handled("scan", http.body,
       IF returned.status = "resolved"
       THEN Response(200, ScanResult(id, Now, returned.value))
       ELSE ScanError(returned.error, BodyPath(http.body),
                      BodyOptions(http.body)))
  /\ UNCHANGED << fs, scanVars, console, waiting, thisDefaultOptions, hashCalls >>

(***************************************************************************)
(* POST /validate.                                                         *)
(***************************************************************************)
\* the outcomes fs.access(p) can have: a directory that cannot be listed
\* and the target of a symbolic link may exist or not
AccessIn(fsx, p) ==
  IF p \in DOMAIN fsx.dirs THEN { [ ok |-> TRUE ] }
  ELSE IF p \in DOMAIN fsx.files
    THEN IF fsx.files[p].mode = "gone" THEN { Failure("ENOENT", p) }
         ELSE { [ ok |-> TRUE ] }
  ELSE IF p = rootPath
         \/ \E d \in DOMAIN fsx.dirs : \E k \in 1..Len(fsx.dirs[d]) :
              PathJoin(d, fsx.dirs[d][k].name) = p
    THEN { [ ok |-> TRUE ], Failure("ENOENT", p) }
  ELSE { Failure("ENOENT", p) }

Valid(absolutePath) == Response(200, [ valid |-> TRUE, path |-> absolutePath ])

NotValid(testPath, error) ==
  Response(200, [ valid |-> FALSE, path |-> testPath, reason |-> error.code ])

\* POST /validate, up to the await of fs.access(absolutePath)
PostValidate(body) ==
  /\ http.state = "idle"
  /\ http' =
       IF ~Truthy(BodyPath(body))
         THEN Handled("validate", body, InvalidRequest)
       ELSE IF ResolveThrows(BodyPath(body))
         THEN Handled("validate", body, NotValid(BodyPath(body), TypeError))
       ELSE [ route |-> "validate", state |-> "accessing", body |-> body,
              responses |-> << >>, served |-> http.served ]
  /\ UNCHANGED << fs, scanVars, console, waiting, thisDefaultOptions, hashCalls >>

\* ValidateRespond with a catch block that answers 404
ValidateRespondNotFound(outcome) ==
  /\ http.route = "validate"
  /\ http.state = "accessing"
  /\ outcome \in AccessIn(fs, PathResolve(BodyPath(http.body).value))
  /\ http' = Handled("validate", http.body,
       IF outcome.ok
       THEN Valid(Str(PathResolve(BodyPath(http.body).value)))
       ELSE [ NotValid(BodyPath(http.body), outcome) EXCEPT !.status = 404 ])
  /\ UNCHANGED << fs, scanVars, console, waiting, thisDefaultOptions, hashCalls >>

\* POST /validate, after the await: valid, or the catch block
ValidateRespond(outcome) ==
  /\ http.route = "validate"
  /\ http.state = "accessing"
  /\ outcome \in AccessIn(fs, PathResolve(BodyPath(http.body).value))
  /\ http' = Handled("validate", http.body,
       IF outcome.ok
       THEN Valid(Str(PathResolve(BodyPath(http.body).value)))
       ELSE NotValid(BodyPath(http.body), outcome))
  /\ UNCHANGED << fs, scanVars, console, waiting, thisDefaultOptions, hashCalls >>

\* the paths of the requests: the root as "r" and as "./r", and what is
\* not a path
RootPaths == { Str(rootPath), Str(<< << "." >> >> \o rootPath) }

NotPaths == { Undefined, Str(<< >>), Num(0), Num(7) }

\* paths below the root, and a path that is in no tree
OtherPaths ==
  { PathJoin(rootPath, NameA), PathJoin(PathJoin(rootPath, NameD), NameN),
    PathJoin(rootPath, NameL), << << "x" >> >> }

\* the outcomes of fs.access on these paths
AccessOutcomes ==
  { [ ok |-> TRUE ] }
    \cup { Failure("ENOENT", p) : p \in { rootPath } \cup OtherPaths }

ApiOptions ==
  { NoOptions, [ recursive |-> FALSE ], [ maxSize |-> MaxMaxSize ] }

ScanBodies ==
  { NoOptions }
    \cup { [ path |-> v ] : v \in RootPaths \cup NotPaths }
    \cup { [ path |-> v, options |-> o ] :
             v \in RootPaths \cup NotPaths, o \in ApiOptions }

ValidateBodies ==
  { NoOptions }
    \cup { [ path |-> v ] :
             v \in RootPaths \cup NotPaths \cup { Str(p) : p \in OtherPaths } }

ApiFileSystems ==
  { MkFs([ f \in SizedFiles |-> MaxFileSize ], mode, unlistable) :
      mode \in { m \in [ ImageFiles -> FileModes ] :
                   Cardinality({ f \in ImageFiles : m[f] # "ok" }) <= MaxFaults },
      unlistable \in { { }, { rootPath }, { DirN } } }

\* the requests a client sends before the one that is followed
MaxServed == 1

\* the client has valid: true from POST /validate and sends another request
NextRequest ==
  /\ http.route = "validate"
  /\ http.state = "done"
  /\ http.responses[1].status = 200
  /\ http.responses[1].body.valid
  /\ Len(http.served) < MaxServed
  /\ http' = [ route |-> "none", state |-> "idle", responses |-> << >>,
               served |-> Append(http.served,
                                 [ route    |-> http.route,
                                   body     |-> http.body,
                                   response |-> http.responses[1] ]) ]
  /\ UNCHANGED << fs, scanVars, console, waiting, thisDefaultOptions, hashCalls >>

InitApi == fs \in ApiFileSystems /\ NothingCalled

NextApi ==
  \/ \E body \in ScanBodies : PostScan(body)
  \/ Step
  \/ \E id \in Uuids : PostScanRespond(id)
  \/ \E body \in ValidateBodies : PostValidate(body)
  \/ \E outcome \in AccessOutcomes : ValidateRespond(outcome)
  \/ NextRequest

SpecApi == InitApi /\ [][NextApi]_vars

(***************************************************************************)
(* Vocabulary of the properties, stated on the file system and on the      *)
(* options the caller passed.                                              *)
(***************************************************************************)
Settled  == returned.status # "pending"
Resolved == returned.status = "resolved"
Rejected == returned.status = "rejected"

Parent(p) == SubSeq(p, 1, Len(p) - 1)
BaseName(p) == p[Len(p)]

NoDuplicates(seq) ==
  \A i, j \in 1..Len(seq) : i # j => seq[i] # seq[j]

\* the directory p lists the entry named so, of that kind
ListedAs(p, kind) ==
  /\ Parent(p) \in DOMAIN fs.dirs
  /\ Dirent(BaseName(p), kind) \in Range(fs.dirs[Parent(p)])

\* the directory d is the root or is listed, as a directory, below it
RECURSIVE Reached(_)
Reached(d) ==
  \/ d = rootPath
  \/ /\ Len(d) > Len(rootPath)
     /\ ListedAs(d, "dir")
     /\ Reached(Parent(d))

\* the regular files of the tree, at any depth, and those at depth 0
FilesUnderRoot ==
  { f \in DOMAIN fs.files : ListedAs(f, "file") /\ Reached(Parent(f)) }
FilesAtDepth0 ==
  { f \in DOMAIN fs.files : ListedAs(f, "file") /\ Parent(f) = rootPath }

AllDirectoriesListable ==
  /\ rootPath \in DOMAIN fs.dirs
  /\ \A d \in DOMAIN fs.dirs : \A e \in Range(fs.dirs[d]) :
       e.kind = "dir" => PathJoin(d, e.name) \in DOMAIN fs.dirs

\* what the caller asked for, an omitted field standing for its default
RequestedRecursive ==
  IF "recursive" \in DOMAIN options THEN options.recursive ELSE TRUE
RequestedFileTypes ==
  IF "fileTypes" \in DOMAIN options THEN options.fileTypes
  ELSE << ExtJpg, ExtJpeg, ExtPng, ExtGif, ExtWebp, ExtBmp, ExtTiff >>

FilesInScope == IF RequestedRecursive THEN FilesUnderRoot ELSE FilesAtDepth0

\* the lower-cased name ends with one of the extensions (a dot followed by
\* characters other than a dot) and has at least one character before it
TypeMatches(name, types) ==
  \E k \in 1..Len(types) :
    LET t == types[k]
    IN  /\ Len(t) >= 1 /\ t[1] = "."
        /\ \A j \in 2..Len(t) : t[j] # "."
        /\ Len(name) > Len(t)
        /\ ToLowerCase(SubSeq(name, Len(name) - Len(t) + 1, Len(name))) = t

Readable(f) == fs.files[f].mode = "ok"
SizeOf(f) == Len(fs.files[f].content)

\* the record of the file f: its root-relative path, its size, the digest
\* of its content
RecordOf(f) ==
  [ path         |-> SubSeq(f, Len(rootPath) + 1, Len(f)),
    absolutePath |-> f,
    size         |-> SizeOf(f),
    hash         |-> calculateFileHash(fs.files[f].content),
    created      |-> fs.files[f].birthtime,
    modified     |-> fs.files[f].mtime ]

Called(op, p) == \E k \in 1..Len(ioLog) : ioLog[k] = << op, p >>

\* the per-file diagnostics, in the order they were logged
FileDiagnostics ==
  SelectSeq(console, LAMBDA d : d.message = "Error processing file")

(***************************************************************************)
(* C1: on a tree whose directories are all listable, a recursive scan      *)
(* returns exactly one record for each regular file whose lower-cased      *)
(* extension is in fileTypes, that can be stat-ed and read, and whose size *)
(* is at most maxSize when maxSize is supplied (0 included); it returns no *)
(* other record, and each record carries the digest of the file's content. *)
(***************************************************************************)
C1_OneRecordPerAcceptedFile ==
  (Resolved /\ RequestedRecursive /\ AllDirectoriesListable) =>
    /\ NoDuplicates(returned.value)
    /\ Range(returned.value) =
         { RecordOf(f) : f \in
             { g \in FilesUnderRoot :
                 /\ TypeMatches(BaseName(g), RequestedFileTypes)
                 /\ Readable(g)
                 /\ "maxSize" \in DOMAIN options => SizeOf(g) <= options.maxSize } }

(***************************************************************************)
(* C2: per-file isolation.  A type-matching file whose stat or hashing     *)
(* fails does not change the outcome: the scan settles as it would with    *)
(* the failing files absent from the tree, with the same records in the    *)
(* same order, and no record for a failing file.                           *)
(***************************************************************************)
FailingFiles ==
  { f \in DOMAIN fs.files :
      ~Readable(f) /\ TypeMatches(BaseName(f), RequestedFileTypes) }

\* the file system without the files F: gone from files and from listings
FsWithout(F) ==
  [ dirs  |-> [ d \in DOMAIN fs.dirs |->
                  SelectSeq(fs.dirs[d],
                            LAMBDA e : PathJoin(d, e.name) \notin F) ],
    files |-> [ f \in DOMAIN fs.files \ F |-> fs.files[f] ] ]

C2_PerFileIsolation ==
  Settled =>
    LET without == scan(FsWithout(FailingFiles), options)
    IN  /\ Resolved = without.ok
        /\ Resolved =>
             /\ returned.value = without.results
             /\ \A k \in 1..Len(returned.value) :
                  returned.value[k].absolutePath \notin FailingFiles

\* the first file of the root failed to stat or to open, and the scan went
\* on to return a record for a later file
C2_Witness ==
  /\ Resolved
  /\ FileA \in FailingFiles
  /\ Called("stat", FileA)
  /\ \E k \in 1..Len(returned.value) : returned.value[k].absolutePath = FileB
  /\ \E k \in 1..Len(console) : console[k].path = FileA

(***************************************************************************)
(* C3: when the root cannot be listed, scan rejects; and whenever scan     *)
(* rejects the caller receives the error and no records, also when records *)
(* had been accumulated before the failure.                                *)
(***************************************************************************)
C3_RejectionCarriesNoRecords ==
  /\ (rootPath \notin DOMAIN fs.dirs /\ pc \notin { "idle", "readdir" })
       => Rejected
  /\ (\E k \in 1..Len(console) : console[k].message = "Error scanning directory")
       => (Rejected /\ pc = "rejected")
  /\ Rejected => DOMAIN returned = { "status", "error" }
  /\ ~Settled => DOMAIN returned = { "status" }

\* scan rejected after a record had been appended to results
C3_Witness ==
  /\ Rejected
  /\ results # << >>
  /\ rootPath \in DOMAIN fs.dirs

ListedDirectories ==
  { rootPath } \cup
  UNION { { PathJoin(d, e.name) :
              e \in { x \in Range(fs.dirs[d]) : x.kind = "dir" } } :
          d \in DOMAIN fs.dirs }

\* the directories a scan under the caller's options has to list and cannot
UnlistableInScope ==
  { d \in ListedDirectories :
      /\ d \notin DOMAIN fs.dirs
      /\ Reached(d)
      /\ d = rootPath \/ RequestedRecursive }

C5_TypePredicate ==
  pc # "idle" =>
    \A f \in DOMAIN fs.files :
      LET matches == TypeMatches(BaseName(f), RequestedFileTypes)
      IN  /\ ~matches =>
               /\ ~Called("stat", f) /\ ~Called("open", f)
               /\ \A k \in 1..Len(results) : results[k].absolutePath # f
               /\ \A k \in 1..Len(console) : console[k].path # f
          /\ (Resolved /\ matches /\ f \in FilesInScope) => Called("stat", f)

\* with fileTypes = ['.jpg'] the file B.JPG has its record, and the file
\* e.png, which could not have been read, was left alone
C5_Witness ==
  /\ Resolved
  /\ { FileB, FileE } \subseteq DOMAIN fs.files
  /\ "fileTypes" \in DOMAIN options /\ options.fileTypes = << ExtJpg >>
  /\ \E k \in 1..Len(returned.value) : returned.value[k] = RecordOf(FileB)
  /\ FileE \in FilesInScope /\ ~Readable(FileE)
  /\ console = << >>

(***************************************************************************)
(* C6: for every maxSize >= 0 the caller supplies, 0 included, no record   *)
(* is larger than maxSize, and a file of exactly maxSize bytes is kept;    *)
(* only an absent maxSize means unbounded.                                 *)
(***************************************************************************)
C6_MaxSizeIsAnInclusiveBound ==
  /\ "maxSize" \in DOMAIN options =>
       /\ \A k \in 1..Len(results) : results[k].size <= options.maxSize
       /\ Resolved =>
            \A f \in FilesInScope :
              ( /\ TypeMatches(BaseName(f), RequestedFileTypes)
                /\ Readable(f)
                /\ SizeOf(f) = options.maxSize )
              => RecordOf(f) \in Range(returned.value)
  /\ ("maxSize" \notin DOMAIN options /\ Resolved) =>
       \A f \in FilesInScope :
         (TypeMatches(BaseName(f), RequestedFileTypes) /\ Readable(f))
         => RecordOf(f) \in Range(returned.value)

(***************************************************************************)
(* C7: on the same tree and with the same fileTypes and maxSize, the       *)
(* records of a scan with recursive = false are those records of the scan  *)
(* with recursive = true whose file lies directly in the root.             *)
(***************************************************************************)
AtDepth0(records) == { r \in Range(records) : Len(r.path) = 1 }

C7_NonRecursiveIsDepth0OfRecursive ==
  Resolved =>
    LET other == scan(fs, MergeOptions(options,
                                       [ recursive |-> ~RequestedRecursive ]))
    IN  other.ok =>
          IF RequestedRecursive
          THEN AtDepth0(returned.value) = Range(other.results)
          ELSE Range(returned.value) = AtDepth0(other.results)

\* a scan with recursive = false returned a record, and the recursive scan
\* of the same tree returns more
C7_Witness ==
  /\ Resolved
  /\ ~RequestedRecursive
  /\ returned.value # << >>
  /\ LET other == scan(fs, MergeOptions(options, [ recursive |-> TRUE ]))
     IN  other.ok /\ Len(other.results) > Len(returned.value)

(***************************************************************************)
(* C8: a scan logs exactly one per-file diagnostic, naming the path and    *)
(* the cause, for each type-matching file in its scope whose stat or hash  *)
(* fails, and none for a file excluded by type or by size; with N readable *)
(* matching files and no size bound it returns N records, and it succeeds. *)
(***************************************************************************)
C8_OneDiagnosticPerFailingFile ==
  /\ NoDuplicates([ k \in 1..Len(FileDiagnostics) |-> FileDiagnostics[k].path ])
  /\ \A k \in 1..Len(FileDiagnostics) :
       LET d == FileDiagnostics[k]
       IN  /\ d.path \in FailingFiles \cap FilesInScope
           /\ ~d.error.ok
           /\ d.error.path = d.path
           /\ d.error.code =
                IF fs.files[d.path].mode = "gone" THEN "ENOENT" ELSE "EACCES"
  /\ Resolved =>
       /\ console = FileDiagnostics
       /\ { FileDiagnostics[k].path : k \in 1..Len(FileDiagnostics) }
            = FailingFiles \cap FilesInScope
       /\ "maxSize" \notin DOMAIN options =>
            Len(returned.value) =
              Cardinality({ f \in FilesInScope :
                              /\ TypeMatches(BaseName(f), RequestedFileTypes)
                              /\ Readable(f) })

\* one matching file could not be read, two could: two records, one
\* diagnostic, and the scan resolved
C8_Witness ==
  /\ Resolved
  /\ Len(FileDiagnostics) = 1
  /\ FileDiagnostics[1].error.code = "EACCES"
  /\ Len(returned.value) = 2
  /\ "maxSize" \notin DOMAIN options

(***************************************************************************)
(* C9, as claimed: when the options omit fileTypes or give an empty list,  *)
(* the scan uses the seven default extensions and accepts files that have  *)
(* them.                                                                   *)
(***************************************************************************)
SevenDefaults == << ExtJpg, ExtJpeg, ExtPng, ExtGif, ExtWebp, ExtBmp, ExtTiff >>

UsesTheDefaultTypes ==
  /\ mergedOptions.fileTypes = SevenDefaults
  /\ Resolved =>
       \A f \in FilesInScope :
         TypeMatches(BaseName(f), SevenDefaults) => Called("stat", f)

C9_EmptyOrOmittedFallsBack ==
  ( /\ pc # "idle"
    /\ "fileTypes" \in DOMAIN options => options.fileTypes = << >> )
  => UsesTheDefaultTypes

(***************************************************************************)
(* C9, amended: when the options omit fileTypes, the scan uses the seven   *)
(* default extensions and accepts files that have them; a fileTypes list   *)
(* that is supplied is used as given, so an empty list accepts no file.    *)
(***************************************************************************)
C9_OmittedFallsBackEmptyAcceptsNothing ==
  pc # "idle" =>
    /\ "fileTypes" \notin DOMAIN options => UsesTheDefaultTypes
    /\ "fileTypes" \in DOMAIN options =>
         /\ mergedOptions.fileTypes = options.fileTypes
         /\ options.fileTypes = << >> =>
              /\ results = << >>
              /\ \A f \in DOMAIN fs.files : ~Called("stat", f)

\* a scan with fileTypes = [] of a tree holding a readable a.jpg resolved
\* with no record
C9_Witness ==
  /\ Resolved
  /\ "fileTypes" \in DOMAIN options /\ options.fileTypes = << >>
  /\ FileA \in FilesInScope /\ Readable(FileA)
  /\ returned.value = << >>

(***************************************************************************)
(* C10: a field omitted from the options takes its default (recursive =    *)
(* true, the seven extensions, no size bound) and a supplied field         *)
(* overrides that field only; scan() with no argument returns the records  *)
(* of the scan with the defaults written out.                              *)
(***************************************************************************)
C10_OmittedFieldsTakeDefaults ==
  pc # "idle" =>
    /\ mergedOptions.recursive = RequestedRecursive
    /\ mergedOptions.fileTypes = RequestedFileTypes
    /\ MaxSizeOf(mergedOptions) = MaxSizeOf(options)
    /\ (Resolved /\ options = NoOptions) =>
         returned.value = scan(fs, DefaultsWrittenOut).results
    /\ (Resolved /\ options = DefaultsWrittenOut) =>
         returned.value = scan(fs, NoOptions).results
    /\ (Resolved /\ "maxSize" \notin DOMAIN options) =>
         \A f \in FilesInScope :
           (TypeMatches(BaseName(f), RequestedFileTypes) /\ Readable(f))
           => RecordOf(f) \in Range(returned.value)

\* scan() with no argument returned the three image files of the tree, one
\* of them larger than a byte and one two levels below the root
C10_Witness ==
  /\ Resolved
  /\ options = NoOptions
  /\ Len(returned.value) = 3
  /\ \E k \in 1..3 : returned.value[k].size > 1
  /\ \E k \in 1..3 : returned.value[k].absolutePath = FileE

(***************************************************************************)
(* C11: scanning a root that exists, can be listed and has no entries      *)
(* resolves with an empty sequence of records; nothing is logged and no    *)
(* file is touched.                                                        *)
(***************************************************************************)
RootIsEmpty == rootPath \in DOMAIN fs.dirs /\ fs.dirs[rootPath] = << >>

C11_EmptyRootGivesEmptyResult ==
  RootIsEmpty =>
    /\ ~Rejected
    /\ console = << >>
    /\ results = << >>
    /\ \A k \in 1..Len(ioLog) : ioLog[k] = << "readdir", rootPath >>
    /\ pc \in { "idle", "readdir", "loop", "resolved" }
    /\ Settled => returned = [ status |-> "resolved", value |-> << >> ]

\* the scan of an empty root has resolved
C11_Witness == RootIsEmpty /\ Resolved /\ Len(ioLog) = 1

(***************************************************************************)
(* C12: a zero-byte regular file with an accepted extension passes the     *)
(* size predicate under every maxSize and without one: when the scan       *)
(* resolves, every readable zero-byte matching file in scope has a record. *)
(***************************************************************************)
C12_ZeroByteFilesAreAccepted ==
  Resolved =>
    \A f \in FilesInScope :
      ( /\ TypeMatches(BaseName(f), RequestedFileTypes)
        /\ Readable(f)
        /\ SizeOf(f) = 0 )
      => RecordOf(f) \in Range(returned.value)

\* a scan with maxSize = 0 returned the record of a file of zero bytes
C12_Witness ==
  /\ Resolved
  /\ "maxSize" \in DOMAIN options /\ options.maxSize = 0
  /\ \E k \in 1..Len(returned.value) :
       /\ returned.value[k].size = 0
       /\ returned.value[k].hash = calculateFileHash(<< >>)

(***************************************************************************)
(* C13: the worked scenario.  Root with a.jpg (10 bytes), b.png (20),      *)
(* c.txt (5) and d/e.gif (15); fileTypes = [.jpg, .png, .gif], recursive = *)
(* true, maxSize = 18: the scan resolves with the records of a.jpg and of  *)
(* d/e.gif and of nothing else, and logs nothing.                          *)
(***************************************************************************)
InScenario == fs = ScenarioFs /\ options = ScenarioOptions /\ pc # "idle"

C13_WorkedScenario ==
  InScenario =>
    /\ ~Rejected
    /\ console = << >>
    /\ Resolved =>
         /\ Len(returned.value) = 2
         /\ { << r.path, r.size >> : r \in Range(returned.value) }
              = { << << NameA >>, 10 >>, << << NameDir, NameEgif >>, 15 >> }
         /\ \A r \in Range(returned.value) :
              r.hash = calculateFileHash(fs.files[r.absolutePath].content)

\* the scan of the scenario has resolved
C13_Witness == InScenario /\ Resolved

(***************************************************************************)
(* C14: in every record, path is relative to the scan root: it has no      *)
(* ".." segment, it names a file reached by descending through entries     *)
(* listed under the root, and resolving it against the root gives the      *)
(* record's absolutePath.                                                  *)
(***************************************************************************)
C14_PathsStayUnderTheRoot ==
  \A k \in 1..Len(results) :
    LET r == results[k]
    IN  /\ r.path # << >>
        /\ \A j \in 1..Len(r.path) : r.path[j] # << ".", "." >>
        /\ rootPath \o r.path = r.absolutePath
        /\ ListedAs(r.absolutePath, "file")
        /\ Reached(Parent(r.absolutePath))

\* a record of a file two directories below the root
C14_Witness ==
  \E k \in 1..Len(results) :
    Len(results[k].path) = 3 /\ results[k].absolutePath = FileE

(***************************************************************************)
(* C15.  In every record of every scan, including scans during which       *)
(* another process grows, shrinks or rewrites the file, the record's size  *)
(* is the length of the exact byte sequence over which the record's hash   *)
(* was computed.                                                           *)
(***************************************************************************)
\* the records made so far: those pushed and the one getImageMetadata has
\* just returned
RecordsMade ==
  Range(results) \cup (IF pc = "size" THEN { cur.metadata } ELSE { })

\* the positions of ioLog at which the stream of p delivered its bytes
ReadsOf(p) ==
  { j \in 1..Len(ioLog) : ioLog[j][1] = "read" /\ ioLog[j][2] = p }

Digest(bytes) == HashDigestHex(HashUpdate(HashCreate, bytes))

\* a write to p after fs.stat answered (the stream is opened in the same
\* step) and before position j
WrittenSinceStat(p, j) ==
  \E i \in 1..Len(ioLog), w \in 1..Len(ioLog) :
     /\ i < w /\ w < j
     /\ ioLog[i] = << "open", p >>
     /\ ioLog[w] = << "write", p >>

C15_SizeIsLengthOfHashedBytes ==
  \A r \in RecordsMade : \A j \in ReadsOf(r.absolutePath) :
     /\ r.hash = Digest(ioLog[j][3])
     /\ r.size = Len(ioLog[j][3])

\* C15 as amended: hash is the digest of the bytes read, and size is their
\* length unless the file was written between fs.stat and the read
C15_SizeIsLengthOfHashedBytesUnlessWritten ==
  \A r \in RecordsMade :
     /\ ReadsOf(r.absolutePath) # { }
     /\ \A j \in ReadsOf(r.absolutePath) :
          /\ r.hash = Digest(ioLog[j][3])
          /\ ~WrittenSinceStat(r.absolutePath, j) => r.size = Len(ioLog[j][3])

\* a record of a file that another process rewrote during the scan, before
\* fs.stat answered
C15_Witness ==
  \E k \in 1..Len(results) :
     /\ Called("write", results[k].absolutePath)
     /\ \A j \in ReadsOf(results[k].absolutePath) :
          /\ ~WrittenSinceStat(results[k].absolutePath, j)
          /\ ioLog[j][3] # << >>
          /\ results[k].size = Len(ioLog[j][3])

(***************************************************************************)
(* C16.  The output sequence is owned by the invocation that produced it:  *)
(* when two scan invocations run interleaved at their await points, each   *)
(* returns exactly the records of its own traversal under its own options, *)
(* with no record of the other invocation added or lost, and a later scan  *)
(* never returns records cached from an earlier one.                       *)
(***************************************************************************)
IsPrefix(s, t) == Len(s) <= Len(t) /\ SubSeq(t, 1, Len(s)) = s

\* an invocation holds and returns what scan() gives when it runs alone
OwnRecords(inv) ==
  LET alone == scan(fs, inv.options)
  IN  /\ IsPrefix(inv.results, alone.results)
      /\ inv.returned.status = "resolved" =>
            alone.ok /\ inv.returned.value = alone.results
      /\ inv.returned.status = "rejected" =>
            ~alone.ok /\ inv.returned.error = alone.error

C16_EachInvocationOwnsItsResults ==
  /\ pc # "idle" => OwnRecords(Running)
  /\ waiting.pc # "idle" => OwnRecords(waiting)

\* one invocation has returned its records while the other, called with
\* other options, waits for a file to be read with a record already made
C16_Witness ==
  /\ Resolved /\ returned.value # << >>
  /\ waiting.pc = "hash" /\ waiting.results # << >>
  /\ waiting.options # options
  /\ returned.value # scan(fs, waiting.options).results

(***************************************************************************)
(* C17.  calculateFileHash settles exactly once: it resolves with the      *)
(* lower-case hexadecimal digest only after the stream is exhausted        *)
(* ('end'), and rejects if the file cannot be opened or a read error       *)
(* occurs after any number of chunks have been consumed; it never resolves *)
(* with a digest of a partial content after an error.                      *)
(***************************************************************************)
LowerHexChars == Range(HexDigits)

SettlesOnce(i) ==
  LET call == hashCalls[i]
      content == fs.files[call.filePath].content
      mode == fs.files[call.filePath].mode
  IN  /\ call.settleCalls <= 1
      /\ call.promise.status = "pending" <=> call.settleCalls = 0
      /\ call.promise.status = "pending" <=>
            call.stream \in { "none", "opening", "flowing" }
      /\ call.stream \in { "opening", "flowing" } => ENABLED StreamEvent(i)
      /\ call.promise.status = "resolved" <=> call.stream = "ended"
      /\ call.promise.status = "rejected" <=> call.stream = "errored"
      /\ call.promise.status = "resolved" =>
            /\ mode = "ok"
            /\ call.offset = Len(content)
            /\ call.promise.value = calculateFileHash(content)
            /\ Range(call.promise.value) \subseteq LowerHexChars
      /\ call.promise.status = "rejected" =>
            /\ mode # "ok"
            /\ call.promise.error.path = call.filePath
            /\ mode \in { "gone", "unreadable" } => call.chunks = 0

C17_SettlesOnceWithTheFullDigest == \A i \in HashCallIds : SettlesOnce(i)

\* a call rejected by a read error after a chunk was consumed, which did
\* not exhaust the content
C17_Witness ==
  \E i \in HashCallIds :
     /\ hashCalls[i].promise.status = "rejected"
     /\ hashCalls[i].promise.error.code = "EIO"
     /\ hashCalls[i].chunks >= 1
     /\ hashCalls[i].offset < Len(fs.files[FileA].content)

(***************************************************************************)
(* C18.  The digest is deterministic: two calculateFileHash calls on the   *)
(* same unchanged file content, whether sequential or interleaved, return  *)
(* the identical hex string, and no state of one call influences the       *)
(* other.                                                                  *)
(***************************************************************************)
\* the digest state of a call is that of the bytes the call has consumed
OwnDigestState(i) ==
  LET call == hashCalls[i]
  IN  call.stream # "none" =>
        call.hash = HashUpdate(HashCreate,
                      SubSeq(fs.files[call.filePath].content, 1, call.offset))

C18_DigestIsDeterministic ==
  /\ \A i \in HashCallIds : OwnDigestState(i)
  /\ \A i, j \in HashCallIds :
       ( /\ hashCalls[i].promise.status = "resolved"
         /\ hashCalls[j].promise.status = "resolved"
         /\ hashCalls[i].filePath = hashCalls[j].filePath )
       => hashCalls[i].promise.value = hashCalls[j].promise.value

\* two calls resolved, one after one chunk and one after two chunks, while
\* the other was under way
C18_Witness ==
  /\ hashCalls[1].promise.status = "resolved"
  /\ hashCalls[2].promise.status = "resolved"
  /\ hashCalls[1].chunks = 1
  /\ hashCalls[2].chunks = 2
  /\ hashCalls[1].promise.value = hashCalls[2].promise.value

(***************************************************************************)
(* C19.  Every POST /scan request receives exactly one response: 400 with  *)
(* code INVALID_REQUEST when the body has no path (and the scanner is      *)
(* never invoked), 500 with code SCAN_ERROR and details {path, options}    *)
(* when and only when the scanner rejects, and otherwise 200 with a        *)
(* ScanResult in which totalFiles equals the number of entries in images.  *)
(***************************************************************************)
ScanRequested == http.route = "scan"
Answered == http.state = "done"
TheResponse == http.responses[1]
ScannerInvoked == pc # "idle"

\* one response once the handler is done, none before, and the handler
\* can always go on until it is done
OneResponse ==
  /\ Len(http.responses) = (IF Answered THEN 1 ELSE 0)
  /\ ~Answered => ENABLED NextApi

\* the answers of POST /scan, with 500 answered exactly when cause holds
ScanAnswers(cause) ==
  LET scanPath == BodyPath(http.body)
      response == TheResponse
  IN  /\ response.status \in { 200, 400, 500 }
      /\ response.status = 400 <=> ~Truthy(scanPath)
      /\ response.status = 400 =>
           /\ response.body.code = "INVALID_REQUEST"
           /\ ~ScannerInvoked /\ ioLog = << >>
      /\ response.status = 500 <=> cause
      /\ response.status = 500 =>
           /\ response.body.code = "SCAN_ERROR"
           /\ response.body.details =
                [ path |-> scanPath, options |-> BodyOptions(http.body) ]
      /\ response.status = 200 =>
           /\ Resolved
           /\ response.body.images = returned.value
           /\ response.body.totalFiles = Len(response.body.images)

ValidateRequested == http.route = "validate"

\* the access check can succeed, or fail, on the path of the request
AccessCan(ok) ==
  /\ ~ResolveThrows(BodyPath(http.body))
  /\ \E outcome \in AccessIn(fs, PathResolve(BodyPath(http.body).value)) :
       outcome.ok = ok

C20_ValidateAnswers200 ==
  ValidateRequested =>
    /\ Len(http.responses) = (IF Answered THEN 1 ELSE 0)
    /\ Answered =>
         LET testPath == BodyPath(http.body)
             response == TheResponse
         IN  /\ response.status \in { 200, 400 }
             /\ response.status = 400 <=> ~Truthy(testPath)
             /\ response.status = 400 =>
                  response.body.code = "INVALID_REQUEST"
             /\ response.status = 200 =>
                  IF response.body.valid
                  THEN /\ AccessCan(TRUE)
                       /\ response.body.path = Str(PathResolve(testPath.value))
                  ELSE /\ ResolveThrows(testPath) \/ AccessCan(FALSE)
                       /\ response.body.path = testPath
                       /\ "reason" \in DOMAIN response.body
             /\ (Truthy(testPath) /\ ~ResolveThrows(testPath)
                   /\ ~AccessCan(FALSE)) => response.body.valid
             /\ (Truthy(testPath) /\ ~AccessCan(TRUE)) => ~response.body.valid

\* "./r" does not exist: valid is false and path is "./r", not "r"
C20_Witness ==
  /\ ValidateRequested /\ Answered
  /\ TheResponse.status = 200
  /\ ~TheResponse.body.valid
  /\ TheResponse.body.reason = "ENOENT"
  /\ TheResponse.body.path = Str(<< << "." >> >> \o rootPath)
  /\ TheResponse.body.path # Str(PathResolve(TheResponse.body.path.value))

(***************************************************************************)
(* C21.  If POST /validate answers valid: true for a path and the          *)
(* filesystem does not change afterwards, a following POST /scan of the    *)
(* same path does not fail with SCAN_ERROR.                                *)
(***************************************************************************)
\* POST /validate answered valid: true for the path of the request that is
\* handled now
ValidatedTrue ==
  \E k \in 1..Len(http.served) :
     /\ http.served[k].route = "validate"
     /\ http.served[k].body = [ path |-> BodyPath(http.body) ]
     /\ http.served[k].response.status = 200
     /\ http.served[k].response.body.valid

ScanAnsweredAfterValidation == ScanRequested /\ Answered /\ ValidatedTrue

Subdirectories == ListedDirectories \ { rootPath }

C22_NonRecursiveLeavesSubdirectoriesAlone ==
  (pc # "idle" /\ ~RequestedRecursive) =>
    /\ Len(stack) <= 1
    /\ pending \in { << >>, rootPath }
    /\ \A k \in 1..Len(ioLog) : ioLog[k][1] = "readdir" => ioLog[k][2] = rootPath
    /\ \A d \in Subdirectories :
         /\ \A k \in 1..Len(ioLog) : ioLog[k][2] # d
         /\ cur.filePath # d
         /\ \A k \in 1..Len(results) : results[k].absolutePath # d
         /\ \A k \in 1..Len(console) : console[k].path # d
    /\ Rejected => rootPath \notin DOMAIN fs.dirs
    /\ (Settled /\ rootPath \in DOMAIN fs.dirs) => Resolved

\* a non-recursive scan with the default fileTypes has resolved with a
\* record, although the subdirectory d.jpg of the root cannot be listed
C22_Witness ==
  /\ Resolved
  /\ ~RequestedRecursive
  /\ "fileTypes" \notin DOMAIN options
  /\ DirD \in Subdirectories /\ DirD \notin DOMAIN fs.dirs
  /\ returned.value # << >>

(***************************************************************************)
(* C23.  Records are appended in the order files are encountered by a      *)
(* depth-first walk: when recursive is true, all records of files under a  *)
(* subdirectory appear contiguously, after the records of the entries      *)
(* listed before that subdirectory and before the records of the entries   *)
(* listed after it.                                                        *)
(***************************************************************************)
\* the path p lies below the directory d
Under(p, d) == IsPrefix(d, p) /\ Len(p) > Len(d)

\* the record at position k of results comes from the entry at path e: it is
\* the record of e, or of a file below e
RecordOfEntry(k, e) ==
  results[k].absolutePath = e \/ Under(results[k].absolutePath, e)

C23_RecordsInDepthFirstOrder ==
  /\ \A d \in Subdirectories :
       \A i, j, k \in 1..Len(results) :
          (i < j /\ j < k /\ RecordOfEntry(i, d) /\ RecordOfEntry(k, d))
             => RecordOfEntry(j, d)
  /\ \A dir \in DOMAIN fs.dirs :
       \A m, n \in 1..Len(fs.dirs[dir]) :
          m < n =>
            \A i, j \in 1..Len(results) :
               ( /\ RecordOfEntry(i, PathJoin(dir, fs.dirs[dir][m].name))
                 /\ RecordOfEntry(j, PathJoin(dir, fs.dirs[dir][n].name)) )
                  => i < j
  /\ Resolved => returned.value = results

\* a recursive scan has resolved with the records of a.jpg, then c.txt and
\* e.png below the subdirectory d.jpg, then B.JPG
C23_Witness ==
  /\ Resolved
  /\ Len(returned.value) = 4
  /\ fs # ScenarioFs
  /\ returned.value[1].absolutePath = FileA
  /\ returned.value[2].absolutePath = FileC
  /\ returned.value[3].absolutePath = FileE
  /\ returned.value[4].absolutePath = FileB

(***************************************************************************)
(* C24.  Within one scan invocation processing is strictly sequential: at  *)
(* every moment at most one file is being stat-ed or hashed, and the stat  *)
(* of the next entry does not start before the previous file's hash has    *)
(* resolved or rejected.                                                   *)
(***************************************************************************)
\* the files whose getImageMetadata call has started and has not settled:
\* fs.stat was called, and neither the stream delivered its bytes nor the
\* catch of the loop body logged the failure
InFlight ==
  { p \in { ioLog[k][2] : k \in { j \in 1..Len(ioLog) : ioLog[j][1] = "stat" } } :
      /\ ReadsOf(p) = { }
      /\ \A k \in 1..Len(FileDiagnostics) : FileDiagnostics[k].path # p }

C24_OneFileAtATime ==
  /\ Cardinality(InFlight) <= 1
  /\ InFlight # { } <=> pc \in { "stat", "hash" }
  /\ InFlight # { } => InFlight = { cur.filePath }
  /\ \A j \in 1..Len(ioLog) :
       ioLog[j][1] = "open" =>
         /\ j > 1 /\ ioLog[j - 1] = << "stat", ioLog[j][2] >>
         /\ j < Len(ioLog) =>
              \/ ioLog[j + 1][1] = "read" /\ ioLog[j + 1][2] = ioLog[j][2]
              \/ \E k \in 1..Len(FileDiagnostics) :
                    FileDiagnostics[k].path = ioLog[j][2]

\* fs.stat of B.JPG is pending, after the hash of a.jpg resolved and the
\* stream of e.png rejected
C24_Witness ==
  /\ pc = "stat"
  /\ fs # ScenarioFs
  /\ cur.filePath = FileB
  /\ ReadsOf(FileA) # { }
  /\ Called("open", FileE)
  /\ ReadsOf(FileE) = { }

(***************************************************************************)
(* C25.  No retries: within one scan each directory is listed at most      *)
(* once and each file is stat-ed at most once and hashed at most once,     *)
(* whether the attempt succeeds or fails; a failed attempt is followed     *)
(* immediately by the next entry.                                          *)
(***************************************************************************)
\* the number of times the file system call op was issued for the path p
TimesCalled(op, p) ==
  Cardinality({ k \in 1..Len(ioLog) : ioLog[k][1] = op /\ ioLog[k][2] = p })

EachCallAtMostOnce ==
  \A k \in 1..Len(ioLog) :
     /\ TimesCalled(ioLog[k][1], ioLog[k][2]) = 1
     /\ ioLog[k][1] \in { "readdir", "stat", "open", "read" }

\* a step in which an attempt fails: the catch of the loop body logs it
AttemptFails == Len(FileDiagnostics') = Len(FileDiagnostics) + 1

\* the for loop of the same scanDirectory call stands at its next entry, and
\* nothing was called again or recorded
LoopGoesOn ==
  /\ pc' = "loop"
  /\ stack' = [ stack EXCEPT ![Len(stack)].i = @ + 1 ]
  /\ ioLog' = ioLog
  /\ results' = results
  /\ returned' = returned

C25_NoRetries ==
  /\ [](pc # "idle" => EachCallAtMostOnce)
  /\ [][AttemptFails => LoopGoesOn]_vars
  /\ [][Len(console') > Len(console) =>
          (pc \in { "readdir", "stat", "hash" } /\ pc' \in { "loop", "rejected" })]_vars

\* a recursive scan has resolved after the stream of e.png rejected: the
\* file was stat-ed and opened once, and B.JPG was processed after it
C25_Witness ==
  /\ Resolved
  /\ fs # ScenarioFs
  /\ TimesCalled("stat", FileE) = 1
  /\ TimesCalled("open", FileE) = 1 /\ ReadsOf(FileE) = { }
  /\ Len(FileDiagnostics) = 1
  /\ ReadsOf(FileB) # { }
  /\ TimesCalled("readdir", DirD) = 1

(***************************************************************************)
(* C26.  A directory entry that the listing reports as neither a regular   *)
(* file nor a directory (for example a symbolic link, whether it points to *)
(* a file or to a directory) is skipped: it is never followed, stat-ed or  *)
(* hashed, produces no record and no diagnostic, and does not stop the     *)
(* traversal.                                                              *)
(***************************************************************************)
\* the paths the listings report as neither a regular file nor a directory
ListedPaths ==
  UNION { { PathJoin(d, fs.dirs[d][k].name) : k \in 1..Len(fs.dirs[d]) } :
            d \in DOMAIN fs.dirs }
OtherEntries ==
  { p \in ListedPaths : ~ListedAs(p, "file") /\ ~ListedAs(p, "dir") }

\* nothing was called for p or below it, and nothing was recorded or logged
Untouched(p) ==
  /\ \A k \in 1..Len(ioLog) : ioLog[k][2] # p /\ ~Under(ioLog[k][2], p)
  /\ \A k \in 1..Len(results) : ~RecordOfEntry(k, p)
  /\ \A k \in 1..Len(console) : console[k].path # p
  /\ pending # p
  /\ cur # NoCall => cur.filePath # p

\* the loop stands at an entry that is neither a file nor a directory
AtOtherEntry == AtEntry /\ Entry.kind \notin { "file", "dir" }

C26_OtherEntriesAreSkipped ==
  /\ [](\A p \in OtherEntries : Untouched(p))
  /\ [][AtOtherEntry =>
          /\ pc' = "loop"
          /\ stack' = [ stack EXCEPT ![Len(stack)].i = @ + 1 ]
          /\ UNCHANGED << results, console, ioLog, returned >>]_vars
  /\ [](AtOtherEntry => ENABLED SkipEntry)

\* a scan has resolved with the record of B.JPG, listed after the symbolic
\* link l.jpg, which left no trace
C26_Witness ==
  /\ Resolved
  /\ PathJoin(rootPath, NameL) \in OtherEntries
  /\ mergedOptions.fileTypes = defaultOptions.fileTypes
  /\ \E k \in 1..Len(returned.value) : returned.value[k].absolutePath = FileB

(***************************************************************************)
(* C27.  scan never mutates the options object passed by the caller nor    *)
(* the scanner's defaultOptions: after any sequence of scan calls with any *)
(* options, defaultOptions is unchanged, so the defaults applied by a      *)
(* later call do not depend on the options of an earlier call.             *)
(***************************************************************************)
\* the options an invocation works with are the declared defaults overridden
\* by its own options, whatever the other invocation was called with
OwnMerge(inv) ==
  inv.pc # "idle" => inv.mergedOptions = MergeOptions(defaultOptions, inv.options)

\* both invocations have been called
BothCalled == pc # "idle" /\ waiting.pc # "idle"

C27_ScanLeavesOptionsAndDefaultsAlone ==
  /\ [](thisDefaultOptions = defaultOptions)
  /\ [](OwnMerge(Running) /\ OwnMerge(waiting))
  /\ [][pc # "idle" =>
          << options', waiting'.options >> \in
             { << options, waiting.options >>, << waiting.options, options >> }]_vars
  /\ [][BothCalled =>
          { options', waiting'.options } = { options, waiting.options }]_vars

\* scan({ recursive: false }) and scan({}) were both called on the scanner;
\* the call without options has resolved and worked with recursive true
C27_Witness ==
  /\ BothCalled
  /\ waiting.options = [ recursive |-> FALSE ]
  /\ options = NoOptions
  /\ Resolved
  /\ mergedOptions.recursive
  /\ ~waiting.mergedOptions.recursive
  /\ waiting.ioLog # << >>

(***************************************************************************)
(* C28.  A variant of the walker that stats each type-matching file and    *)
(* applies the size predicate before hashing (skipping the hash of         *)
(* oversized files) produces, for every tree, every options value and      *)
(* every pattern of per-file failures, the same observable output as the   *)
(* current walker that hashes first and filters by size afterwards: the    *)
(* same records and the same per-file diagnostics.                         *)
(***************************************************************************)
\* what the variant gives on the tree and the options of this scan
SizeFirst == scanSizeFirst(fs, options)

SameOutcome ==
  /\ SizeFirst.ok <=> Resolved
  /\ SizeFirst.results = results
  /\ Resolved => returned.value = SizeFirst.results
  /\ Rejected => returned.error = SizeFirst.error

\* as claimed: the records and all the diagnostics are the same
C28_SizeFirstGivesTheSameOutput ==
  Settled => (SameOutcome /\ console = SizeFirst.console)

\* the file at p can be stat-ed and the size predicate rejects its size
Oversized(p) ==
  /\ StatIn(fs, p).ok
  /\ ~isValidSize([ size |-> StatIn(fs, p).stats.size ], MaxSizeOf(mergedOptions))

\* the diagnostic of a file that was stat-ed, is oversized, and whose stream
\* rejected
OfUnreadableOversized(diagnostic) ==
  /\ diagnostic.message = "Error processing file"
  /\ Oversized(diagnostic.path)

\* C28 as the code has it: the records are the same, and so are the
\* diagnostics but for those of oversized files whose content cannot be
\* read, which only the current walker logs
C28_SizeFirstGivesTheSameRecords ==
  Settled =>
    /\ SameOutcome
    /\ SelectSeq(console, LAMBDA d : ~OfUnreadableOversized(d)) = SizeFirst.console

\* a scan with maxSize 1 has resolved with a record, after it logged the
\* rejected stream of a file of more than one byte
C28_Witness ==
  /\ Resolved
  /\ returned.value # << >>
  /\ \E k \in 1..Len(console) : OfUnreadableOversized(console[k])
  /\ Len(SizeFirst.console) < Len(console)

(***************************************************************************)
(* C29.  The digest of a file does not depend on how its content is split  *)
(* into chunks: feeding the same byte sequence to the running hash in any  *)
(* chunking (any chunk size, including a single chunk or an empty file     *)
(* with no chunk) finalizes to the same hex string.                        *)
(***************************************************************************)
\* the digest of bytes fed in two chunks, split after the k-th byte
DigestSplitAt(bytes, k) ==
  HashDigestHex(HashUpdate(HashUpdate(HashCreate, SubSeq(bytes, 1, k)),
                           SubSeq(bytes, k + 1, Len(bytes))))

\* the digest of bytes fed one byte at a time
RECURSIVE ByteByByte(_, _)
ByteByByte(h, bytes) ==
  IF bytes = << >> THEN h
  ELSE ByteByByte(HashUpdate(h, << Head(bytes) >>), Tail(bytes))

ChunkingIndependent(i) ==
  LET call == hashCalls[i]
      content == fs.files[call.filePath].content
  IN  call.promise.status = "resolved" =>
        /\ call.promise.value = HashDigestHex(HashUpdate(HashCreate, content))
        /\ call.promise.value = HashDigestHex(ByteByByte(HashCreate, content))
        /\ \A k \in 0..Len(content) : call.promise.value = DigestSplitAt(content, k)
        /\ content = << >> => (call.chunks = 0 /\ call.promise.value = HashDigestHex(HashCreate))

C29_DigestIgnoresChunking == \A i \in HashCallIds : ChunkingIndependent(i)

\* a content of two different bytes was delivered to one call in one chunk
\* and to the other byte by byte; both calls resolved
C29_Witness ==
  /\ Len(fs.files[FileA].content) = 2
  /\ fs.files[FileA].content[1] # fs.files[FileA].content[2]
  /\ \E i, j \in HashCallIds :
        /\ hashCalls[i].promise.status = "resolved" /\ hashCalls[i].chunks = 1
        /\ hashCalls[j].promise.status = "resolved" /\ hashCalls[j].chunks = 2

(***************************************************************************)
(* C30.  For every finite directory tree and every pattern of per-file     *)
(* and per-directory failures, scan eventually settles (resolves with      *)
(* records or rejects with an error), and no directory is listed more than *)
(* once, because entries reported as symbolic links are never descended    *)
(* into.                                                                   *)
(***************************************************************************)
\* every listing is that of the root or of an entry reported as a directory,
\* and it was asked for once
ListsDirectoriesOnce ==
  \A k \in 1..Len(ioLog) :
     ioLog[k][1] = "readdir" =>
       /\ TimesCalled("readdir", ioLog[k][2]) = 1
       /\ ioLog[k][2] = rootPath \/ ListedAs(ioLog[k][2], "dir")
       /\ ioLog[k][2] \notin OtherEntries

C30_ScanSettles ==
  /\ [](pc # "idle" => ListsDirectoriesOnce)
  /\ (pc # "idle") ~> Settled
  /\ [](Settled => (Resolved \/ Rejected) /\ pc \in { "resolved", "rejected" })

\* a recursive scan has settled on a tree with a symbolic link, a file that
\* failed, and both subdirectories listed
C30_Witness ==
  /\ Resolved
  /\ PathJoin(rootPath, NameL) \in OtherEntries
  /\ Called("readdir", DirD) /\ Called("readdir", DirN)
  /\ Len(FileDiagnostics) >= 1

====
